---- MODULE Spec2Model ----
(***************************************************************************)
(* Model of core/brain/rotation.py: RotationRules, PlayHistoryItem and     *)
(* RotationEngine (add_to_history, check_separation, check_dmca,           *)
(* select_track).                                                          *)
(*                                                                         *)
(* Times are minutes, as in the source (timedelta(minutes=...)).  Two      *)
(* clocks exist in the source: the simulated time the caller passes        *)
(* (played_at, simulated_time) and the wall clock add_to_history reads     *)
(* with datetime.now().  They are separate variables here (cursor, now).   *)
(***************************************************************************)
EXTENDS Integers, Sequences, FiniteSets, TLC

\* the RotationEngine, its clocks and its caller
VARIABLES rules, history, now, cursor, candidates, ret, prov
\* assembler threads sharing the engine
VARIABLES asm
\* RadioScheduler: generate_daily_schedule and the locals of generate_hour_block
VARIABLES library, hour, pc, failed, script_intros, playlist_tracks,
          music_tracks, music_idx, intro_i, generated_files
\* BroadcastScheduler and the HourClock it resolved
VARIABLES clocks, shows, active, slot
\* PlaylistManager: the tracks exported, the file written, the tracks parsed
VARIABLES export_tracks, playlist_file, parsed
\* ShowRunner: the hour of the wall clock, the daypart it last returned
VARIABLES runner_hour, daypart
\* cortex: the RadioState of push_to_deck and the text written to Liquidsoap
VARIABLES next_track, deck_writes, deck_history
\* LiveAssistController and EmergencyController, and their wall clock
VARIABLES override_level, current_session, emergency_active, last_audio_time,
          live_clock
\* ContentScheduler: its schedule, its flag, its loop threads, its clock and
\* the calls of its callbacks
VARIABLES schedule, running, loops, poll_clock, fires

engineVars == <<rules, history, now, cursor, candidates, ret, prov>>

\* the state outside the RotationEngine
schedVars == <<library, hour, pc, failed, script_intros, playlist_tracks,
               music_tracks, music_idx, intro_i, generated_files>>

clockVars == <<clocks, shows, active, slot>>

listVars == <<export_tracks, playlist_file, parsed>>

runnerVars == <<runner_hour, daypart>>

deckVars == <<next_track, deck_writes, deck_history>>

liveVars == <<override_level, current_session, emergency_active,
              last_audio_time, live_clock>>

pollVars == <<schedule, running, loops, poll_clock, fires>>

\* the components outside rotation, scheduling, clocks and playlists
controlVars == <<runnerVars, deckVars, liveVars, pollVars>>

otherVars == <<asm, schedVars, clockVars, listVars, controlVars>>

\* the state an assembler thread does not touch, besides the engine's
asmFrame == <<schedVars, clockVars, listVars, controlVars>>

\* the state each of the other components leaves alone
schedFrame == <<engineVars, asm, clockVars, listVars, controlVars>>

clockFrame == <<engineVars, asm, schedVars, listVars, controlVars>>

listFrame == <<engineVars, asm, schedVars, clockVars, controlVars>>

\* rotation, scheduling, clocks and playlists together
coreVars == <<engineVars, asm, schedVars, clockVars, listVars>>

runnerFrame == <<coreVars, deckVars, liveVars, pollVars>>

deckFrame == <<coreVars, runnerVars, liveVars, pollVars>>

liveFrame == <<coreVars, runnerVars, deckVars, pollVars>>

pollFrame == <<coreVars, runnerVars, deckVars, liveVars>>

vars == <<engineVars, otherVars>>

----------------------------------------------------------------------------
(* Bounds of the model *)

\* granularity of the simulated and the wall clock, in minutes
Step == 60
\* simulated time runs over 0, Step, ..., MaxTick * Step
MaxTick == 1
\* the wall clock starts at WallStart and ticks at most MaxWallTick times
WallStart == 1380
MaxWallTick == 1
\* longest play history explored
MaxHist == 2

Times == {k * Step : k \in 0..MaxTick}

----------------------------------------------------------------------------
(* Data *)

\* Python's None
None == "<None>"

\* str.lower() on the strings that occur in the model's tracks
Lower(s) ==
    CASE s \in {"Abba", "ABBA", "abba"} -> "abba"
      [] s \in {"Song", "SONG", "song"} -> "song"
      [] s \in {"Gold", "GOLD", "gold"} -> "gold"
      [] s = "Beta" -> "beta"
      [] s = "Cher" -> "cher"
      [] s = "Tune" -> "tune"
      [] s = "Opus" -> "opus"
      [] OTHER -> s

\* truth value of an Optional[str] in a Python condition
Truthy(s) == s # None /\ s # ""

\* TrackMetadata, reduced to the fields rotation.py reads
TrackA == [file_path |-> "/music/a.mp3", file_hash |-> "h1", title |-> "Song",
           artist |-> "Abba", album |-> "Gold"]
\* a second copy of TrackA's audio (same hash) under other tags
TrackB == [file_path |-> "/music/b.mp3", file_hash |-> "h1", title |-> "Tune",
           artist |-> "Beta", album |-> ""]
\* another version of TrackA's song: same title and album up to case
TrackC == [file_path |-> "/music/c.mp3", file_hash |-> None, title |-> "SONG",
           artist |-> "Cher", album |-> "GOLD"]
\* another song by TrackA's artist, written in another case
TrackD == [file_path |-> "/music/d.mp3", file_hash |-> None, title |-> "Opus",
           artist |-> "ABBA", album |-> None]

Tracks == {TrackA, TrackB, TrackC, TrackD}

\* the None that select_track returns in place of a track
NoTrack == [file_path |-> None, file_hash |-> None, title |-> None,
            artist |-> None, album |-> None]

\* RotationRules() with the dataclass defaults
DefaultRules == [artist_separation_minutes |-> 60,
                 track_separation_minutes |-> 240,
                 same_title_separation_minutes |-> 120,
                 dmca_artist_limit_3hours |-> 3,
                 dmca_album_limit_3hours |-> 2]

\* the rule sets an engine is constructed with in the model
RuleSets ==
    { \* TestRotationEngine.setUp: the defaults but for the track window
      [DefaultRules EXCEPT !.track_separation_minutes = 120],
      \* short windows, the title window longer than the track window,
      \* tight rights limits
      [artist_separation_minutes |-> 30, track_separation_minutes |-> 30,
       same_title_separation_minutes |-> 90,
       dmca_artist_limit_3hours |-> 2, dmca_album_limit_3hours |-> 1] }

\* candidate lists a caller passes to select_track
CandidateLists == { <<>>, <<TrackA, TrackD>>, <<TrackA, TrackC>> }

\* hours=3 in check_dmca, hours=24 in add_to_history, in minutes
DmcaWindowMinutes == 180
RetentionMinutes == 1440

PlayHistoryItem(track, played_at) == [track |-> track, played_at |-> played_at]

Range(s) == {s[i] : i \in DOMAIN s}

\* the subsequence of s at the indices in keep, in order
RECURSIVE Filter(_, _, _)
Filter(s, keep, i) ==
    IF i > Len(s) THEN <<>>
    ELSE IF i \in keep THEN <<s[i]>> \o Filter(s, keep, i + 1)
    ELSE Filter(s, keep, i + 1)

----------------------------------------------------------------------------
(* RotationEngine *)

\* the indices kept by the pruning list comprehension of add_to_history
Kept(h, wall) == {i \in DOMAIN h : h[i].played_at > wall - RetentionMinutes}

\* add_to_history: append, then drop what is not newer than now - 24h
add_to_history(h, track, played_at, wall) ==
    LET appended == Append(h, PlayHistoryItem(track, played_at))
    IN  Filter(appended, Kept(appended, wall), 1)

\* the items a "for item in reversed(history): if played_at < cutoff: break"
\* loop visits: the longest suffix whose items are all at or after cutoff
Scanned(h, cutoff) ==
    {i \in DOMAIN h : \A j \in i..Len(h) : h[j].played_at >= cutoff}

hash_match(item, track) ==
    /\ item.track.file_hash # None
    /\ track.file_hash # None
    /\ item.track.file_hash = track.file_hash

path_match(item, track) == item.track.file_path = track.file_path

\* check_separation that takes a play for a repeat only when hash and path
\* both match
check_separation_both(h, track, simulated_time) ==
    LET track_cutoff == simulated_time - rules.track_separation_minutes
        title_cutoff == simulated_time - rules.same_title_separation_minutes
        artist_cutoff == simulated_time - rules.artist_separation_minutes
        trackViolated ==
            \E i \in Scanned(h, track_cutoff) :
                \/ hash_match(h[i], track) /\ path_match(h[i], track)
                \/ /\ Lower(h[i].track.title) = Lower(track.title)
                   /\ h[i].played_at > title_cutoff
        artistViolated ==
            \E i \in Scanned(h, artist_cutoff) :
                Lower(h[i].track.artist) = Lower(track.artist)
    IN  ~trackViolated /\ ~artistViolated

\* check_separation that compares the artists as written
check_separation_cased(h, track, simulated_time) ==
    LET track_cutoff == simulated_time - rules.track_separation_minutes
        title_cutoff == simulated_time - rules.same_title_separation_minutes
        artist_cutoff == simulated_time - rules.artist_separation_minutes
        trackViolated ==
            \E i \in Scanned(h, track_cutoff) :
                \/ hash_match(h[i], track) \/ path_match(h[i], track)
                \/ /\ Lower(h[i].track.title) = Lower(track.title)
                   /\ h[i].played_at > title_cutoff
        artistViolated ==
            \E i \in Scanned(h, artist_cutoff) :
                h[i].track.artist = track.artist
    IN  ~trackViolated /\ ~artistViolated

check_separation(h, track, simulated_time) ==
    LET track_cutoff == simulated_time - rules.track_separation_minutes
        title_cutoff == simulated_time - rules.same_title_separation_minutes
        artist_cutoff == simulated_time - rules.artist_separation_minutes
        trackViolated ==
            \E i \in Scanned(h, track_cutoff) :
                \/ hash_match(h[i], track) \/ path_match(h[i], track)
                \/ /\ Lower(h[i].track.title) = Lower(track.title)
                   /\ h[i].played_at > title_cutoff
        artistViolated ==
            \E i \in Scanned(h, artist_cutoff) :
                Lower(h[i].track.artist) = Lower(track.artist)
    IN  ~trackViolated /\ ~artistViolated

\* check_dmca that lets a count go one past its limit
check_dmca_over(h, track, simulated_time) ==
    LET window_start == simulated_time - DmcaWindowMinutes
        seen == Scanned(h, window_start)
        artist_count ==
            Cardinality({i \in seen :
                Lower(h[i].track.artist) = Lower(track.artist)})
        album_count ==
            Cardinality({i \in seen :
                /\ Truthy(track.album) /\ Truthy(h[i].track.album)
                /\ Lower(h[i].track.album) = Lower(track.album)})
    IN  /\ ~(artist_count > rules.dmca_artist_limit_3hours)
        /\ ~(album_count > rules.dmca_album_limit_3hours)

\* check_dmca with a window of 3 minutes in place of 3 hours
check_dmca_minutes(h, track, simulated_time) ==
    LET window_start == simulated_time - 3
        seen == Scanned(h, window_start)
        artist_count ==
            Cardinality({i \in seen :
                Lower(h[i].track.artist) = Lower(track.artist)})
        album_count ==
            Cardinality({i \in seen :
                /\ Truthy(track.album) /\ Truthy(h[i].track.album)
                /\ Lower(h[i].track.album) = Lower(track.album)})
    IN  /\ ~(artist_count >= rules.dmca_artist_limit_3hours)
        /\ ~(album_count >= rules.dmca_album_limit_3hours)

check_dmca(h, track, simulated_time) ==
    LET window_start == simulated_time - DmcaWindowMinutes
        seen == Scanned(h, window_start)
        artist_count ==
            Cardinality({i \in seen :
                Lower(h[i].track.artist) = Lower(track.artist)})
        album_count ==
            Cardinality({i \in seen :
                /\ Truthy(track.album) /\ Truthy(h[i].track.album)
                /\ Lower(h[i].track.album) = Lower(track.album)})
    IN  /\ ~(artist_count >= rules.dmca_artist_limit_3hours)
        /\ ~(album_count >= rules.dmca_album_limit_3hours)

\* the first loop accepting a track that passes either of its two checks
StrictOk_either(h, track, simulated_time, enforce_dmca) ==
    \/ check_separation(h, track, simulated_time)
    \/ enforce_dmca /\ check_dmca(h, track, simulated_time)

\* first loop of select_track: the hard rules
StrictOk(h, track, simulated_time, enforce_dmca) ==
    /\ check_separation(h, track, simulated_time)
    /\ ~(enforce_dmca /\ ~check_dmca(h, track, simulated_time))

\* the second loop with no time window: any earlier play of the path blocks
RelaxedOk_ever(h, track, simulated_time) ==
    ~\E i \in DOMAIN h : h[i].track.file_path = track.file_path

\* second loop of select_track: last_play is None
RelaxedOk(h, track, simulated_time) ==
    LET track_cutoff == simulated_time - rules.track_separation_minutes
    IN  ~\E i \in DOMAIN h :
            /\ h[i].track.file_path = track.file_path
            /\ h[i].played_at > track_cutoff

Min(S) == CHOOSE x \in S : \A y \in S : x <= y

\* select_track whose fallback returns the first track of the pool unchecked
select_track_unchecked(h, pool, simulated_time, enforce_dmca) ==
    LET strict == {i \in DOMAIN pool :
                      StrictOk(h, pool[i], simulated_time, enforce_dmca)}
    IN  IF strict # {} THEN [track |-> pool[Min(strict)], via |-> "strict"]
        ELSE IF pool # <<>> THEN [track |-> pool[1], via |-> "fallback"]
        ELSE [track |-> NoTrack, via |-> "none"]

\* select_track on the shuffled pool; via names the return statement taken
select_track(h, pool, simulated_time, enforce_dmca) ==
    LET strict == {i \in DOMAIN pool :
                      StrictOk(h, pool[i], simulated_time, enforce_dmca)}
        relaxed == {i \in DOMAIN pool : RelaxedOk(h, pool[i], simulated_time)}
    IN  IF strict # {} THEN [track |-> pool[Min(strict)], via |-> "strict"]
        ELSE IF relaxed # {} THEN [track |-> pool[Min(relaxed)], via |-> "fallback"]
        ELSE [track |-> NoTrack, via |-> "none"]

\* the outcomes of random.shuffle(pool) on pool = list(cands)
Shuffles(cands) ==
    {[i \in DOMAIN cands |-> cands[p[i]]] : p \in Permutations(DOMAIN cands)}

----------------------------------------------------------------------------
(* State outside the engine, as it is while only the engine runs *)

\* the assembler threads that share one engine
Assemblers == {1, 2}

\* an assembler that has not called the engine yet
AsmIdle == [pc |-> "idle", track |-> NoTrack, kept |-> <<>>]

\* a RadioScheduler on which generate_daily_schedule has not been called
SchedIdle ==
    /\ hour = 0
    /\ pc = "idle"
    /\ failed = None
    /\ script_intros = 0
    /\ playlist_tracks = <<>>
    /\ music_tracks = <<>>
    /\ music_idx = 0
    /\ intro_i = 0
    /\ generated_files = <<>>

\* no clock resolved yet, no slot looked up yet
NoClock == [name |-> None, day_part |-> None, slots |-> <<>>]

Unresolved == [at |-> 0, clock |-> NoClock]

NoSlot ==
    [minute |-> 0,
     slot |-> [segment_type |-> None, minute_of_hour |-> 0, duration |-> 0]]

\* a BroadcastScheduler with nothing registered and nothing resolved
ClockIdle ==
    /\ clocks = <<>>
    /\ shows = <<>>
    /\ active = Unresolved
    /\ slot = NoSlot

\* no playlist exported or parsed
NoFile == [format |-> "none", lines |-> <<>>]

NotParsed == [from |-> "none", tracks |-> <<>>]

ListIdle ==
    /\ export_tracks = <<>>
    /\ playlist_file = NoFile
    /\ parsed = NotParsed

\* a ShowRunner that has not been asked for the daypart
NoDaypart == [hour |-> 0, part |-> None]

RunnerIdle ==
    /\ runner_hour = 0
    /\ daypart = NoDaypart

\* no RadioState pushed to the deck
DeckIdle ==
    /\ next_track = <<>>
    /\ deck_writes = <<>>
    /\ deck_history = <<>>

\* current_session = None
NoSession == [host_name |-> None, override_level |-> None]

\* LiveAssistController() and EmergencyController(live_assist)
LiveIdle ==
    /\ override_level = "full_auto"
    /\ current_session = NoSession
    /\ emergency_active = FALSE
    /\ last_audio_time = 0
    /\ live_clock = 0

\* no schedule in self.schedules
NoSchedule ==
    [interval |-> None, minute_offset |-> 0, enabled |-> FALSE,
     last_run |-> 0 - 1, next_run |-> 0 - 1]

\* a ContentScheduler that holds no schedule and was never started
PollIdle ==
    /\ schedule = NoSchedule
    /\ running = FALSE
    /\ loops = <<>>
    /\ poll_clock = 0
    /\ fires = <<>>

ControlIdle == RunnerIdle /\ DeckIdle /\ LiveIdle /\ PollIdle

OtherInit ==
    /\ asm = [a \in Assemblers |-> AsmIdle]
    /\ library = <<>>
    /\ SchedIdle
    /\ ClockIdle
    /\ ListIdle
    /\ ControlIdle

----------------------------------------------------------------------------
(* State machine *)

Idle == [track |-> NoTrack, via |-> "idle", enforce_dmca |-> FALSE]

Init ==
    /\ rules \in RuleSets
    /\ history = <<>>
    /\ now = WallStart
    /\ cursor = 0
    /\ candidates \in CandidateLists
    /\ ret = Idle
    /\ prov = <<>>
    /\ OtherInit

\* the wall clock advances
Tick ==
    /\ now < WallStart + MaxWallTick * Step
    /\ now' = now + Step
    /\ UNCHANGED <<rules, history, cursor, candidates, ret, prov>>
    /\ UNCHANGED otherVars

\* the caller's simulated time advances
Advance ==
    /\ \E t \in Times : t > cursor /\ cursor' = t
    /\ ret' = Idle
    /\ UNCHANGED <<rules, history, now, candidates, prov>>
    /\ UNCHANGED otherVars

\* select_track shuffling the caller's list itself
SelectTrack_inplace ==
    /\ \E enforce_dmca \in BOOLEAN, pool \in Shuffles(candidates) :
          LET r == select_track(history, pool, cursor, enforce_dmca)
          IN  /\ ret' = [track |-> r.track, via |-> r.via,
                         enforce_dmca |-> enforce_dmca]
              /\ candidates' = pool
    /\ UNCHANGED <<rules, history, now, cursor, prov>>
    /\ UNCHANGED otherVars

\* a call of select_track(candidates, cursor, enforce_dmca); the shuffle
\* works on pool = list(candidates), a copy
SelectTrack ==
    /\ \E enforce_dmca \in BOOLEAN, pool \in Shuffles(candidates) :
          LET r == select_track(history, pool, cursor, enforce_dmca)
          IN  ret' = [track |-> r.track, via |-> r.via,
                      enforce_dmca |-> enforce_dmca]
    /\ UNCHANGED <<rules, history, now, cursor, candidates, prov>>
    /\ UNCHANGED otherVars

\* a call of add_to_history(track, cursor) by a caller that chose track itself
AddTrack(track) ==
    /\ Len(history) < MaxHist
    /\ LET appended == Append(history, PlayHistoryItem(track, cursor))
       IN  /\ history' = add_to_history(history, track, cursor, now)
           /\ prov' = Filter(Append(prov, "direct"), Kept(appended, now), 1)
    /\ ret' = Idle
    /\ UNCHANGED <<rules, now, cursor, candidates>>
    /\ UNCHANGED otherVars

AddToHistory == \E track \in Tracks : AddTrack(track)

\* the commit of a selection: add_to_history(returned track, cursor)
RecordPlay ==
    /\ Len(history) < MaxHist
    /\ ret.via \in {"strict", "fallback"}
    /\ LET appended == Append(history, PlayHistoryItem(ret.track, cursor))
           how == IF ret.via = "fallback" THEN "fallback"
                  ELSE IF ret.enforce_dmca THEN "strict" ELSE "norights"
       IN  /\ history' = add_to_history(history, ret.track, cursor, now)
           /\ prov' = Filter(Append(prov, how), Kept(appended, now), 1)
    /\ ret' = Idle
    /\ UNCHANGED <<rules, now, cursor, candidates>>
    /\ UNCHANGED otherVars

Next == Tick \/ Advance \/ SelectTrack \/ AddToHistory

Spec == Init /\ [][Next]_vars

\* only commits of selections reach the history
NextCommit == Tick \/ Advance \/ SelectTrack \/ RecordPlay

SpecCommit == Init /\ [][NextCommit]_vars

TypeOK ==
    /\ rules \in RuleSets
    /\ Len(history) <= MaxHist
    /\ Len(prov) = Len(history)
    /\ cursor \in Times
    /\ candidates \in CandidateLists
    /\ ret.track \in Tracks \cup {NoTrack}

----------------------------------------------------------------------------
(* Vocabulary of the properties *)

\* the simulated times a caller can still pass: simulated time is sequential
QueryTimes == {t \in Times : t >= cursor}

\* a play at time p lies within the window of length sep that ends at t
Within(p, t, sep) == t - sep <= p /\ p <= t

SameIdentity(a, b) ==
    \/ a.file_path = b.file_path
    \/ a.file_hash # None /\ b.file_hash # None /\ a.file_hash = b.file_hash

SameArtist(a, b) == Lower(a.artist) = Lower(b.artist)

SameTitle(a, b) == Lower(a.title) = Lower(b.title)

AlbumKnown(a) == a.album # None /\ a.album # ""

SameAlbum(a, b) ==
    AlbumKnown(a) /\ AlbumKnown(b) /\ Lower(a.album) = Lower(b.album)

\* select_track has returned and its result is still held by the caller
Selected == ret.via # "idle"

----------------------------------------------------------------------------
(* C1  Track separation: whenever the history holds a play of the same     *)
(* file hash or file path as track X within track_separation of t,         *)
(* check_separation(X, t) is false.                                        *)
RecentPlayOf(X, t) ==
    \E i \in DOMAIN history :
        /\ SameIdentity(history[i].track, X)
        /\ Within(history[i].played_at, t, rules.track_separation_minutes)

C1_TrackSeparation ==
    \A X \in Tracks, t \in QueryTimes :
        RecentPlayOf(X, t) => ~check_separation(history, X, t)

\* select_track has checked a candidate whose audio (same hash, other path)
\* was played within the track window
C1_Witness ==
    /\ Selected
    /\ \E X \in Range(candidates), i \in DOMAIN history :
          /\ history[i].track.file_path # X.file_path
          /\ history[i].track.file_hash = X.file_hash /\ X.file_hash # None
          /\ Within(history[i].played_at, cursor, rules.track_separation_minutes)

(* C2  Artist separation: a play by the same artist, compared without      *)
(* case, within artist_separation of t makes check_separation(X, t) false; *)
(* when the history shares nothing with X but plays of X's artist that     *)
(* are more than artist_separation before t, check_separation(X, t) is     *)
(* true.                                                                   *)
RecentPlayByArtistOf(X, t) ==
    \E i \in DOMAIN history :
        /\ SameArtist(history[i].track, X)
        /\ Within(history[i].played_at, t, rules.artist_separation_minutes)

OnlyOldArtistPlays(X, t) ==
    /\ \E i \in DOMAIN history : SameArtist(history[i].track, X)
    /\ \A i \in DOMAIN history :
          /\ ~SameIdentity(history[i].track, X)
          /\ ~SameTitle(history[i].track, X)
          /\ SameArtist(history[i].track, X) =>
                history[i].played_at < t - rules.artist_separation_minutes

C2_ArtistSeparation ==
    \A X \in Tracks, t \in QueryTimes :
        /\ RecentPlayByArtistOf(X, t) => ~check_separation(history, X, t)
        /\ OnlyOldArtistPlays(X, t) => check_separation(history, X, t)

\* a candidate whose artist was played under another spelling: blocked now,
\* free again at a later time
C2_Witness ==
    /\ Selected
    /\ \E X \in Range(candidates), t \in QueryTimes :
          /\ \E i \in DOMAIN history :
                /\ SameArtist(history[i].track, X)
                /\ history[i].track.artist # X.artist
          /\ RecentPlayByArtistOf(X, cursor)
          /\ OnlyOldArtistPlays(X, t)

(* C3  Rights cap: check_dmca(X, t) is false exactly when the plays by X's *)
(* artist in the 3 hours before t have reached dmca_artist_limit_3hours or *)
(* the plays from X's album (album known on both sides) have reached       *)
(* dmca_album_limit_3hours.                                                *)
ArtistPlays(X, t) ==
    Cardinality({i \in DOMAIN history :
        /\ SameArtist(history[i].track, X)
        /\ Within(history[i].played_at, t, DmcaWindowMinutes)})

AlbumPlays(X, t) ==
    Cardinality({i \in DOMAIN history :
        /\ SameAlbum(history[i].track, X)
        /\ Within(history[i].played_at, t, DmcaWindowMinutes)})

C4_TitleSeparation ==
    \A X \in Tracks, t \in QueryTimes :
        (\E i \in DOMAIN history :
            /\ SameTitle(history[i].track, X)
            /\ history[i].played_at > t - rules.same_title_separation_minutes
            /\ history[i].played_at <= t)
        => ~check_separation(history, X, t)

(* C5  Degradation monotonicity: every track the strict rules accept       *)
(* (separation, and rights when enforced) is accepted by the degraded      *)
(* rule, so whenever the strict pass over a pool finds a track the         *)
(* degraded pass over the same pool finds one too.                         *)
C5_DegradationMonotone ==
    \A t \in QueryTimes, enforce_dmca \in BOOLEAN :
        /\ \A X \in Tracks :
              StrictOk(history, X, t, enforce_dmca) => RelaxedOk(history, X, t)
        /\ (\E X \in Range(candidates) : StrictOk(history, X, t, enforce_dmca))
              => \E X \in Range(candidates) : RelaxedOk(history, X, t)

\* the strict pass returned a track while another candidate passes only the
\* degraded rule
C5_Witness ==
    /\ ret.via = "strict"
    /\ history # <<>>
    /\ \E X \in Range(candidates) :
          /\ ~StrictOk(history, X, cursor, ret.enforce_dmca)
          /\ RelaxedOk(history, X, cursor)

(* C6  History pruning: after add_to_history no entry older than the       *)
(* 24-hour horizon remains, and check_separation and check_dmca at the     *)
(* time of the recorded play or later give the same result on the pruned   *)
(* history as on the unpruned one.                                         *)
PruningHarmless(track) ==
    LET unpruned == Append(history, PlayHistoryItem(track, cursor))
    IN  /\ \A i \in DOMAIN history' :
              history'[i].played_at > now - RetentionMinutes
        /\ \A X \in Tracks, t \in QueryTimes :
              /\ check_separation(history', X, t) = check_separation(unpruned, X, t)
              /\ check_dmca(history', X, t) = check_dmca(unpruned, X, t)

C6_HistoryPruning ==
    [][\A track \in Tracks : AddTrack(track) => PruningHarmless(track)]_vars

C8_SelectIsPure ==
    [][ /\ SelectTrack => UNCHANGED <<history, candidates, rules>>
        /\ history' # history => AddToHistory \/ RecordPlay ]_vars

\* the fallback path has returned a track and the history still holds plays
C8_Witness ==
    /\ ret.via = "fallback"
    /\ history # <<>>
    /\ Len(candidates) > 1

----------------------------------------------------------------------------
(* Commit sequences: the properties below are about SpecCommit, where the  *)
(* history holds only tracks select_track returned, recorded at the time   *)
(* of their selection.                                                     *)

(* C9 as claimed  No two plays of the history by the same artist are       *)
(* closer together than artist_separation.                                 *)
C9_ArtistSpacing ==
    \A i, j \in DOMAIN history :
        (i < j /\ SameArtist(history[i].track, history[j].track)) =>
            history[j].played_at - history[i].played_at
                >= rules.artist_separation_minutes

(* C9  Artist-spacing invariant, amended: every play that select_track     *)
(* returned from its strict pass lies at least artist_separation after     *)
(* every earlier play of the history by the same artist.                   *)
C9_ArtistSpacingStrict ==
    \A i, j \in DOMAIN history :
        (i < j /\ prov[j] # "fallback"
               /\ SameArtist(history[i].track, history[j].track)) =>
            history[j].played_at - history[i].played_at
                >= rules.artist_separation_minutes

\* two plays of one artist under two spellings, the later one committed
\* from the strict pass
C9_Witness ==
    \E i, j \in DOMAIN history :
        /\ i < j /\ prov[j] # "fallback"
        /\ SameArtist(history[i].track, history[j].track)
        /\ history[i].track.artist # history[j].track.artist
        /\ rules.artist_separation_minutes > 0

(* C10 as claimed  With enforce_dmca on at every commit, no 3-hour window  *)
(* holds more plays of one artist than dmca_artist_limit_3hours or more    *)
(* plays of one album than dmca_album_limit_3hours.                        *)
InWindowFrom(i, j) ==
    /\ history[j].played_at >= history[i].played_at
    /\ history[j].played_at <= history[i].played_at + DmcaWindowMinutes

Trailing(j) ==
    {i \in 1..j : history[i].played_at >= history[j].played_at - DmcaWindowMinutes}

----------------------------------------------------------------------------
(* Callers that pass any played_at: add_to_history takes the time of the   *)
(* play from its caller and appends without looking at the history.        *)

\* a call of add_to_history(track, played_at)
AddTrackAt(track, played_at) ==
    /\ Len(history) < MaxHist
    /\ LET appended == Append(history, PlayHistoryItem(track, played_at))
       IN  /\ history' = add_to_history(history, track, played_at, now)
           /\ prov' = Filter(Append(prov, "direct"), Kept(appended, now), 1)
    /\ ret' = Idle
    /\ UNCHANGED <<rules, now, cursor, candidates>>
    /\ UNCHANGED otherVars

AddToHistoryAt == \E track \in Tracks, played_at \in Times : AddTrackAt(track, played_at)

NextFree == Tick \/ SelectTrack \/ AddToHistoryAt

SpecFree == Init /\ [][NextFree]_vars

(* C11  History ordering: after any sequence of add_to_history calls the   *)
(* entries of the play history are in non-decreasing order of played_at,   *)
(* the order the backward scans of check_separation and check_dmca rely on *)
(* when they stop at the first entry before their cutoff.                  *)
C11_HistoryOrdering ==
    \A i, j \in DOMAIN history :
        i < j => history[i].played_at <= history[j].played_at

----------------------------------------------------------------------------
(* Two assemblers on one engine.  RotationEngine holds no lock: a commit   *)
(* is a call of select_track and a later call of add_to_history, and       *)
(* add_to_history is itself two statements, the append to self.history    *)
(* and the rebinding of self.history to the pruned copy.  Each assembler   *)
(* commits one selection at the simulated time cursor.                     *)

\* assembler a with its record changed to r
AsmSet(a, r) == asm' = [asm EXCEPT ![a] = r]

\* select_track(candidates, cursor) called by assembler a
AsmSelect(a) ==
    /\ asm[a].pc = "idle"
    /\ \E pool \in Shuffles(candidates) :
          LET r == select_track(history, pool, cursor, TRUE)
          IN  AsmSet(a, [pc |-> IF r.track = NoTrack THEN "done" ELSE "selected",
                         track |-> r.track, kept |-> <<>>])
    /\ UNCHANGED engineVars
    /\ UNCHANGED asmFrame

\* add_to_history, first statement: self.history.append(...)
AsmAppend(a) ==
    /\ asm[a].pc = "selected"
    /\ history' = Append(history, PlayHistoryItem(asm[a].track, cursor))
    /\ prov' = Append(prov, "shared")
    /\ AsmSet(a, [asm[a] EXCEPT !.pc = "appended"])
    /\ UNCHANGED <<rules, now, cursor, candidates, ret>>
    /\ UNCHANGED asmFrame

\* add_to_history, second statement, the list comprehension is evaluated
AsmPruneRead(a) ==
    /\ asm[a].pc = "appended"
    /\ AsmSet(a, [asm[a] EXCEPT !.pc = "pruning",
                                !.kept = Filter(history, Kept(history, now), 1)])
    /\ UNCHANGED engineVars
    /\ UNCHANGED asmFrame

\* add_to_history, second statement, self.history is bound to the result
AsmPruneWrite(a) ==
    /\ asm[a].pc = "pruning"
    /\ history' = asm[a].kept
    /\ prov' = [i \in DOMAIN asm[a].kept |-> "shared"]
    /\ AsmSet(a, [asm[a] EXCEPT !.pc = "done", !.kept = <<>>])
    /\ UNCHANGED <<rules, now, cursor, candidates, ret>>
    /\ UNCHANGED asmFrame

AsmStep == \E a \in Assemblers :
    AsmSelect(a) \/ AsmAppend(a) \/ AsmPruneRead(a) \/ AsmPruneWrite(a)

NextShared == AsmStep

SpecShared == Init /\ [][NextShared]_vars

\* assembler a is between its select_track and the return of its
\* add_to_history
InCommit(a) == asm[a].pc \in {"selected", "appended", "pruning"}

\* add_to_history of assembler a has returned
Committed(a) == asm[a].pc = "done" /\ asm[a].track # NoTrack

(* C12  Commit atomicity: when two assemblers share one engine no          *)
(* assembler selects or records while another is between its select_track  *)
(* and the end of its add_to_history, so the history never holds the same   *)
(* track twice within track_separation and holds every play whose           *)
(* add_to_history has returned.                                             *)
C12_CommitAtomicity ==
    /\ \A a, b \in Assemblers : InCommit(a) /\ InCommit(b) => a = b
    /\ \A i, j \in DOMAIN history :
          (i < j /\ SameIdentity(history[i].track, history[j].track)) =>
              history[j].played_at - history[i].played_at
                  >= rules.track_separation_minutes
    /\ \A a \in Assemblers :
          Committed(a) =>
              \E i \in DOMAIN history :
                  history[i] = PlayHistoryItem(asm[a].track, cursor)

\* the consequences alone: a track twice within track_separation
C12_NoDoublePlay ==
    \A i, j \in DOMAIN history :
        (i < j /\ SameIdentity(history[i].track, history[j].track)) =>
            history[j].played_at - history[i].played_at
                >= rules.track_separation_minutes

\* the consequences alone: a play whose add_to_history returned is missing
C12_NoLostPlay ==
    \A a \in Assemblers :
        Committed(a) =>
            \E i \in DOMAIN history :
                history[i] = PlayHistoryItem(asm[a].track, cursor)

----------------------------------------------------------------------------
(* RadioScheduler (core/brain/scheduler.py): generate_daily_schedule and   *)
(* generate_hour_block.  The position inside generate_hour_block is pc;    *)
(* every call of a collaborator (content text, voice synthesis, mixing)    *)
(* returns a result, returns nothing, or raises.                           *)

\* range(24) in generate_daily_schedule
HoursPerDay == 24
\* the hours of the day that are generated in the model
MaxHours == 2

\* get_rotation_picks(count=15), range(1, 15), range(3), "music_idx < 12"
PickCount == 15
DemoCount == 14
BlockSongs == 3
SongsPerHour == 12
\* "for _ in range(4)" in generate_hourly_package
IntrosPerPackage == 4

\* what a call of a collaborator does
Outcomes == {"ok", "none", "raise"}

\* TrackMetadata as generate_hour_block builds and reads it.  A string the
\* code builds from parts (an f-string) is the sequence of its parts.
Item(file_path, title, artist, intro_seconds, generation_prompt) ==
    [file_path |-> file_path, title |-> title, artist |-> artist,
     intro_seconds |-> intro_seconds, generation_prompt |-> generation_prompt]

\* a track of the music library, with its intro_seconds
LibraryTrack(track, intro_seconds) ==
    Item(<<track.file_path>>, <<track.title>>, track.artist, intro_seconds, None)

\* the tracks of rotation category "hot"
HotTracks == <<LibraryTrack(TrackA, 8), LibraryTrack(TrackB, 0),
               LibraryTrack(TrackC, 0), LibraryTrack(TrackD, 8)>>

\* the libraries a scheduler is built on: no hot track, four hot tracks
Libraries == {<<>>, HotTracks}

\* str(i) for i in range(1, 15)
DemoNumbers == <<"1", "2", "3", "4", "5", "6", "7", "8", "9", "10", "11",
                 "12", "13", "14">>

\* the dummy music of generate_hour_block
DemoTracks ==
    [i \in 1..DemoCount |->
        Item(<<"/music/demo_track_", DemoNumbers[i], ".mp3">>,
             <<"Demo Track ", DemoNumbers[i]>>, "Unknown Artist", 0, None)]

\* MusicLibrary.get_rotation_picks: random.sample(candidates, min(count, n))
get_rotation_picks(lib, count) ==
    {SubSeq(p, 1, IF count < Len(lib) THEN count ELSE Len(lib)) :
        p \in Shuffles(lib)}

\* _create_voice_track when text and audio are there; the audio file is
\* named after the text, which is named here after the title it is made for
VoiceTrack(title) ==
    Item(<<"voice_">> \o title, title, "AI DJ", 0, "voice")

\* the TrackMetadata of a ramp mix of voice over song
MixedSong(voice, song) ==
    Item(<<"ramp_mix_">> \o voice.file_path \o song.file_path,
         song.title, song.artist, 0, "Voice Over Ramp Mix")

\* the ad placeholder
DummyAd == Item(<<"/ads/dummy_ad.mp3">>, <<"Sponsor Message">>, "Sponsor", 0, None)

\* playlist_tracks.insert(0, item)
Place_front(plan, item) ==
    <<item>> \o plan

\* playlist_tracks.append(item)
Place(plan, item) ==
    Append(plan, item)

\* song.intro_seconds, or random.uniform(5.0, 15.0) for a demo track
RampSeconds(song) ==
    IF song.intro_seconds = 0 /\ song.title[1] = "Demo Track "
    THEN {5, 10, 15} ELSE {song.intro_seconds}

\* a block 2 pass that places the song again after its ramp mix
Block2Items_both(song, has_intro, ramp_seconds, text, voice, mix, text2, voice2) ==
    LET intro == VoiceTrack(<<"Intro: ">> \o song.title)
        mixed_success ==
            ramp_seconds > 5 /\ text = "ok" /\ voice = "ok" /\ mix = "ok"
    IN  IF ~has_intro THEN <<song>>
        ELSE IF mixed_success THEN <<MixedSong(intro, song), song>>
        ELSE (IF text2 = "ok" /\ voice2 = "ok" THEN <<intro>> ELSE <<>>)
             \o <<song>>

\* what one pass of the block 2 loop appends for song when nothing raises
\* outside the try: the ramp mix, or the intro (when there is one) and song
Block2Items(song, has_intro, ramp_seconds, text, voice, mix, text2, voice2) ==
    LET intro == VoiceTrack(<<"Intro: ">> \o song.title)
        mixed_success ==
            ramp_seconds > 5 /\ text = "ok" /\ voice = "ok" /\ mix = "ok"
    IN  IF ~has_intro THEN <<song>>
        ELSE IF mixed_success THEN <<MixedSong(intro, song)>>
        ELSE (IF text2 = "ok" /\ voice2 = "ok" THEN <<intro>> ELSE <<>>)
             \o <<song>>

\* an exception leaves the block 2 pass: only the calls of lines 217-220
\* are outside the try
Block2Raises(has_intro, ramp_seconds, text, voice, mix, text2, voice2) ==
    LET mixed_success ==
            ramp_seconds > 5 /\ text = "ok" /\ voice = "ok" /\ mix = "ok"
    IN  /\ has_intro /\ ~mixed_success
        /\ text2 = "raise" \/ (text2 = "ok" /\ voice2 = "raise")

\* the exception propagates out of generate_hour_block and of
\* generate_daily_schedule
Abort(at) ==
    /\ pc' = "aborted"
    /\ failed' = at
    /\ UNCHANGED <<library, hour, script_intros, playlist_tracks, music_tracks,
                   music_idx, intro_i, generated_files>>

\* lines 100-123: context, content package, empty playlist
StartHour ==
    /\ pc = "idle"
    /\ hour < HoursPerDay /\ hour < MaxHours
    /\ \E package \in {"ok", "raise"} :
          IF package = "raise" THEN Abort("package")
          ELSE /\ pc' = "station_id"
               /\ script_intros' \in {0, IntrosPerPackage}
               /\ playlist_tracks' = <<>>
               /\ music_tracks' = <<>>
               /\ music_idx' = 0
               /\ intro_i' = 0
               /\ UNCHANGED <<library, hour, failed, generated_files>>
    /\ UNCHANGED schedFrame

\* track = self._create_voice_track(text, title); if track: append
VoiceStep(at, title, next) ==
    /\ pc = at
    /\ \E voice \in Outcomes :
          IF voice = "raise" THEN Abort(at)
          ELSE /\ pc' = next
               /\ playlist_tracks' =
                     IF voice = "ok" THEN Place(playlist_tracks, VoiceTrack(title))
                     ELSE playlist_tracks
               /\ UNCHANGED <<library, hour, failed, script_intros, music_tracks,
                              music_idx, intro_i, generated_files>>
    /\ UNCHANGED schedFrame

StationId == VoiceStep("station_id", <<"Station ID">>, "weather")

WeatherUpdate == VoiceStep("weather", <<"Weather Update">>, "block1")

\* lines 135-154: the picks of the hour and the first three songs
MusicBlock1 ==
    /\ pc = "block1"
    /\ \E picks \in get_rotation_picks(library, PickCount) :
          LET music == IF picks = <<>> THEN DemoTracks ELSE picks
              n == IF Len(music) < BlockSongs THEN Len(music) ELSE BlockSongs
          IN  /\ music_tracks' = music
              /\ music_idx' = n
              /\ playlist_tracks' = playlist_tracks \o SubSeq(music, 1, n)
    /\ pc' = "news"
    /\ UNCHANGED <<library, hour, failed, script_intros, intro_i, generated_files>>
    /\ UNCHANGED schedFrame

NewsBrief == VoiceStep("news", <<"News Update">>, "block2")

\* one pass of "for i in range(3)" of block 2
Block2Song ==
    /\ pc = "block2"
    /\ IF music_idx < Len(music_tracks)
       THEN LET song == music_tracks[music_idx + 1]
                has_intro == intro_i < script_intros
            IN  \E ramp_seconds \in RampSeconds(song),
                   text, voice, mix, text2, voice2 \in Outcomes :
                   IF Block2Raises(has_intro, ramp_seconds, text, voice, mix,
                                   text2, voice2)
                   THEN Abort("block2")
                   ELSE /\ playlist_tracks' = playlist_tracks \o
                              Block2Items(song, has_intro, ramp_seconds,
                                          text, voice, mix, text2, voice2)
                        /\ music_idx' = music_idx + 1
                        /\ intro_i' = intro_i + 1
                        /\ pc' = IF intro_i + 1 = BlockSongs
                                 THEN "ad_lead_in" ELSE "block2"
                        /\ UNCHANGED <<library, hour, failed, script_intros,
                                       music_tracks, generated_files>>
       ELSE /\ intro_i' = intro_i + 1
            /\ pc' = IF intro_i + 1 = BlockSongs THEN "ad_lead_in" ELSE "block2"
            /\ UNCHANGED <<library, hour, failed, script_intros, playlist_tracks,
                           music_tracks, music_idx, generated_files>>
    /\ UNCHANGED schedFrame

\* lines 230-234: the lead-in and the ad placeholder
AdLeadIn ==
    /\ pc = "ad_lead_in"
    /\ \E voice \in Outcomes :
          IF voice = "raise" THEN Abort("ad_lead_in")
          ELSE /\ pc' = "ad_lead_out"
               /\ playlist_tracks' =
                     Place(IF voice = "ok"
                           THEN Place(playlist_tracks,
                                      VoiceTrack(<<"Ad Break Lead-in">>))
                           ELSE playlist_tracks,
                           DummyAd)
               /\ UNCHANGED <<library, hour, failed, script_intros, music_tracks,
                              music_idx, intro_i, generated_files>>
    /\ UNCHANGED schedFrame

AdLeadOut == VoiceStep("ad_lead_out", <<"Ad Break Lead-out">>, "remaining")

\* the music of a plan: the file paths of the library or demo tracks in it
MusicOf(plan, music) ==
    {music[k].file_path : k \in {k \in DOMAIN music :
        \E n \in DOMAIN plan :
            plan[n].title = music[k].title /\ plan[n].artist = music[k].artist}}

\* lines 240-249 and 257-258: the remaining music, the export, the return to
\* generate_daily_schedule, which goes on to the next hour
RemainingMusic ==
    /\ pc = "remaining"
    /\ LET last == IF Len(music_tracks) < SongsPerHour
                   THEN Len(music_tracks) ELSE SongsPerHour
           plan == IF music_idx < last
                   THEN playlist_tracks \o SubSeq(music_tracks, music_idx + 1, last)
                   ELSE playlist_tracks
       IN  /\ playlist_tracks' = plan
           /\ music_idx' = IF music_idx < last THEN last ELSE music_idx
           /\ generated_files' =
                 Append(generated_files,
                        [hour |-> hour, music |-> MusicOf(plan, music_tracks)])
    /\ hour' = hour + 1
    /\ pc' = "idle"
    /\ UNCHANGED <<library, failed, script_intros, music_tracks, intro_i>>
    /\ UNCHANGED schedFrame

\* a RadioScheduler on one of the libraries; it holds no RotationEngine
InitSched ==
    /\ rules = DefaultRules
    /\ history = <<>>
    /\ now = WallStart
    /\ cursor = 0
    /\ candidates = <<>>
    /\ ret = Idle
    /\ prov = <<>>
    /\ asm = [a \in Assemblers |-> AsmIdle]
    /\ library \in Libraries
    /\ SchedIdle
    /\ ClockIdle
    /\ ListIdle
    /\ ControlIdle

NextSched ==
    \/ StartHour \/ StationId \/ WeatherUpdate \/ MusicBlock1 \/ NewsBrief
    \/ Block2Song \/ AdLeadIn \/ AdLeadOut \/ RemainingMusic

SpecSched == InitSched /\ [][NextSched]_vars

SchedTypeOK ==
    /\ pc \in {"idle", "station_id", "weather", "block1", "news", "block2",
               "ad_lead_in", "ad_lead_out", "remaining", "aborted"}
    /\ hour \in 0..MaxHours
    /\ music_idx \in 0..SongsPerHour
    /\ intro_i \in 0..BlockSongs
    /\ Len(generated_files) = hour
    /\ (failed # None) = (pc = "aborted")

\* item is the song itself or its ramp mix (which keeps title and artist)
Carries(item, song) ==
    /\ item.title = song.title
    /\ item.artist = song.artist
    /\ item.generation_prompt # "voice"

IsVoice(item) == item.generation_prompt = "voice"

IsMixed(item) == item.generation_prompt = "Voice Over Ramp Mix"

\* the spoken intro made for song
IsIntroOf(item, song) == IsVoice(item) /\ item.title = <<"Intro: ">> \o song.title

\* the play history of a RotationEngine holds a play of song
Recorded(song) ==
    \E i \in DOMAIN history : <<history[i].track.file_path>> = song.file_path

\* generate_hour_block has returned the plan of an hour
HourDone == pc = "idle" /\ hour > 0

(* C13  Cross-hour observation: the hours of a day are generated in        *)
(* increasing order, and every music track placed in a plan is recorded in *)
(* the play history of the one shared RotationEngine before the next       *)
(* selection, so that every selection observes the music placed earlier.   *)
C13_CrossHourObservation ==
    /\ \A n \in DOMAIN generated_files : generated_files[n].hour = n - 1
    /\ \A k \in DOMAIN music_tracks :
          (\E n \in DOMAIN playlist_tracks :
              Carries(playlist_tracks[n], music_tracks[k]))
          => Recorded(music_tracks[k])

\* what the observation is for: no track in the plans of two hours that
\* lie closer together than track_separation
C13_NoRepeatAcrossHours ==
    \A m, n \in DOMAIN generated_files :
        (m < n /\ (generated_files[n].hour - generated_files[m].hour) * 60
                      < rules.track_separation_minutes)
        => generated_files[m].music \cap generated_files[n].music = {}

(* C14  No abort on ancillary failure: whatever the collaborators do       *)
(* during an hour (return nothing, raise), generate_hour_block completes   *)
(* and returns a plan, and the plan is not empty and contains music.       *)
C14_NoAbort ==
    /\ pc # "aborted"
    /\ HourDone =>
          /\ playlist_tracks # <<>>
          /\ \E n \in DOMAIN playlist_tracks, k \in DOMAIN music_tracks :
                Carries(playlist_tracks[n], music_tracks[k])

\* the songs of the intro block whose pass of the loop has ended, by its
\* last statement or by an exception
IntroBlockEnded ==
    {k \in DOMAIN music_tracks :
        /\ k > BlockSongs /\ k <= 2 * BlockSongs
        /\ \/ k <= music_idx
           \/ failed = "block2" /\ k = music_idx + 1}

CarryingItems(song) ==
    {n \in DOMAIN playlist_tracks : Carries(playlist_tracks[n], song)}

(* C15  Voice-over-intro never drops the track: for every track of the     *)
(* intro block, in every outcome of text, voice and mixing (nothing        *)
(* returned or an error raised included), exactly one item carrying the    *)
(* track is appended: the ramp mix with no separate voice item, or the     *)
(* original track, with its voice item (when there is one) right before.   *)
C15_TrackNeverDropped ==
    \A k \in IntroBlockEnded :
        LET song == music_tracks[k]
        IN  /\ Cardinality(CarryingItems(song)) = 1
            /\ \A n \in CarryingItems(song) :
                  /\ IsMixed(playlist_tracks[n]) =>
                        ~\E m \in DOMAIN playlist_tracks :
                            IsIntroOf(playlist_tracks[m], song)
                  /\ ~IsMixed(playlist_tracks[n]) =>
                        /\ playlist_tracks[n] = song
                        /\ \A m \in DOMAIN playlist_tracks :
                              IsIntroOf(playlist_tracks[m], song) => m = n - 1

\* the place of a song in music_tracks
MusicIndex(item) ==
    CHOOSE k \in DOMAIN music_tracks : Carries(item, music_tracks[k])

\* the song a spoken intro is made for
IntroIndex(item) ==
    CHOOSE k \in DOMAIN music_tracks : IsIntroOf(item, music_tracks[k])

\* the place of an item in the segment plan of the hour: station ID,
\* weather, music block 1, news, block 2 (intro, song) three times,
\* ad lead-in, ad, ad lead-out, remaining music
SegmentOf(item) ==
    IF item.title = <<"Station ID">> THEN 0
    ELSE IF item.title = <<"Weather Update">> THEN 1
    ELSE IF item.title = <<"News Update">> THEN 5
    ELSE IF item.title = <<"Ad Break Lead-in">> THEN 12
    ELSE IF item = DummyAd THEN 13
    ELSE IF item.title = <<"Ad Break Lead-out">> THEN 14
    ELSE IF IsVoice(item) THEN 6 + 2 * (IntroIndex(item) - BlockSongs - 1)
    ELSE LET k == MusicIndex(item)
         IN  IF k <= BlockSongs THEN 1 + k
             ELSE IF k <= 2 * BlockSongs THEN 7 + 2 * (k - BlockSongs - 1)
             ELSE 8 + k

(* C16  Output order is the segment order: whichever optional items are    *)
(* missing, any two items of the hour plan stand in the order of their     *)
(* segments in the plan.                                                   *)
C16_SegmentOrder ==
    \A m, n \in DOMAIN playlist_tracks :
        m < n => SegmentOf(playlist_tracks[m]) < SegmentOf(playlist_tracks[n])

\* a returned plan with a ramp mix and a sequential intro in it, the news
\* item missing
C16_Witness ==
    /\ HourDone
    /\ \E n \in DOMAIN playlist_tracks : IsMixed(playlist_tracks[n])
    /\ \E n \in DOMAIN playlist_tracks, k \in DOMAIN music_tracks :
          IsIntroOf(playlist_tracks[n], music_tracks[k])
    /\ ~\E n \in DOMAIN playlist_tracks :
          playlist_tracks[n].title = <<"News Update">>
    /\ \E n \in DOMAIN playlist_tracks :
          playlist_tracks[n].title = <<"Ad Break Lead-out">>

----------------------------------------------------------------------------
(* Construction of the rules and of the engine.  RotationRules is a        *)
(* dataclass with no __post_init__: the constructor stores the numbers it  *)
(* is given.  RotationEngine.__init__ keeps the rules it is given, or the  *)
(* defaults when given none.                                               *)

\* RotationRules(...), keyword arguments in the order of the fields
RotationRules(artist, track, title, artist_limit, album_limit) ==
    [artist_separation_minutes |-> artist,
     track_separation_minutes |-> track,
     same_title_separation_minutes |-> title,
     dmca_artist_limit_3hours |-> artist_limit,
     dmca_album_limit_3hours |-> album_limit]

\* the numbers a caller passes in the model
DurationArgs == {-30, 60}
LimitArgs == {0, 3}

\* self.rules = rules or RotationRules()
EngineRules(given, r) == IF given THEN r ELSE DefaultRules

\* RotationEngine(rules) or RotationEngine() right after construction
InitConfig ==
    /\ \E given \in BOOLEAN, artist \in DurationArgs, limit \in LimitArgs :
          rules = EngineRules(given,
                      RotationRules(artist,
                                    DefaultRules.track_separation_minutes,
                                    DefaultRules.same_title_separation_minutes,
                                    limit,
                                    DefaultRules.dmca_album_limit_3hours))
    /\ history = <<>>
    /\ now = WallStart
    /\ cursor = 0
    /\ candidates \in CandidateLists
    /\ ret = Idle
    /\ prov = <<>>
    /\ OtherInit

SpecConfig == InitConfig /\ [][Next]_vars

(* C17  Invalid configuration fails fast: no RotationEngine ever operates  *)
(* with rules that have a negative duration or a limit below 1, because    *)
(* constructing such RotationRules fails.                                  *)
C17_ValidRules ==
    /\ rules.artist_separation_minutes >= 0
    /\ rules.track_separation_minutes >= 0
    /\ rules.same_title_separation_minutes >= 0
    /\ rules.dmca_artist_limit_3hours >= 1
    /\ rules.dmca_album_limit_3hours >= 1

\* an engine with invalid rules goes on to answer select_track
C17_NoSelectionOnInvalidRules ==
    Selected => C17_ValidRules

----------------------------------------------------------------------------
(* BroadcastScheduler and HourClock.  core/brain/agents/content.py imports *)
(* BroadcastScheduler, DayPart and HourClock from core.brain.scheduler,    *)
(* which does not define them; they are modelled here from the design      *)
(* document (sections 3 and 4.2).  Instants are minutes from midnight of   *)
(* the first day.                                                          *)

\* the most shows scheduled in the model
MaxShows == 2

DayParts == {"overnight", "morning", "midday", "afternoon", "evening"}

\* dayPartOf(now): a fixed function of the hour of the day
dayPartOf(t) ==
    LET h == (t \div 60) % 24
    IN  IF h < 6 THEN "overnight"
        ELSE IF h < 10 THEN "morning"
        ELSE IF h < 15 THEN "midday"
        ELSE IF h < 19 THEN "afternoon"
        ELSE "evening"

ScheduleSlot(segment_type, minute_of_hour, duration) ==
    [segment_type |-> segment_type, minute_of_hour |-> minute_of_hour,
     duration |-> duration]

\* a slot added at the end of the clock's list, whatever its minute
addSlot_append(slots, new) ==
    Append(slots, new)

\* a slot added to a clock: the slots stay sorted by minute_of_hour, a new
\* slot going behind the slots of its own minute
addSlot(slots, new) ==
    LET k == Cardinality({i \in DOMAIN slots :
                    slots[i].minute_of_hour <= new.minute_of_hour})
    IN  SubSeq(slots, 1, k) \o <<new>> \o SubSeq(slots, k + 1, Len(slots))

RECURSIVE AddSlots(_, _)
AddSlots(slots, given) ==
    IF given = <<>> THEN slots
    ELSE AddSlots(addSlot(slots, Head(given)), Tail(given))

\* a clock built from the slots given, in the order given
HourClock(name, day_part, given) ==
    [name |-> name, day_part |-> day_part, slots |-> AddSlots(<<>>, given)]

\* ClockBuilder presets and show clocks
MusicHeavy ==
    HourClock("music-heavy", "morning",
              <<ScheduleSlot("id", 0, 1), ScheduleSlot("ad", 30, 3),
                ScheduleSlot("music", 15, 15)>>)

TalkHeavy ==
    HourClock("talk-heavy", "midday",
              <<ScheduleSlot("music", 40, 15), ScheduleSlot("talk", 10, 20),
                ScheduleSlot("ad", 40, 3)>>)

DefaultClock ==
    HourClock("default", "overnight", <<ScheduleSlot("music", 0, 60)>>)

CountdownClock ==
    HourClock("countdown", "evening",
              <<ScheduleSlot("talk", 20, 5), ScheduleSlot("music", 5, 15)>>)

RequestClock ==
    HourClock("requests", "evening",
              <<ScheduleSlot("talk", 59, 1), ScheduleSlot("music", 1, 58)>>)

AllClocks == {MusicHeavy, TalkHeavy, DefaultClock, CountdownClock, RequestClock}

\* dayPart -> HourClock mappings a scheduler is configured with; a daypart
\* may have no clock
Registries ==
    { [d \in DayParts |-> IF d \in {"morning", "afternoon"} THEN MusicHeavy
                          ELSE TalkHeavy],
      [d \in {"morning", "evening"} |-> IF d = "morning" THEN MusicHeavy
                                        ELSE TalkHeavy] }

Show(name, start_time, duration, clock) ==
    [name |-> name, start_time |-> start_time, duration |-> duration,
     clock |-> clock]

\* the shows a caller schedules in the model: 06:00-10:00, 09:00-11:00 and
\* 06:00-07:00
ShowPool ==
    { Show("countdown", 360, 240, CountdownClock),
      Show("requests", 540, 120, RequestClock),
      Show("breakfast", 360, 60, TalkHeavy) }

\* the instants at which the clock is resolved in the model
Instants == {300, 360, 400, 540, 600, 660, 1140}

\* a show put at the end of the list, whatever its start_time
scheduleShow_append(list, show) ==
    Append(list, show)

\* scheduleShow: insert, keeping the list in start_time order
scheduleShow(list, show) ==
    LET k == Cardinality({i \in DOMAIN list :
                    list[i].start_time <= show.start_time})
    IN  SubSeq(list, 1, k) \o <<show>> \o SubSeq(list, k + 1, Len(list))

IsActive(show, t) ==
    show.start_time <= t /\ t < show.start_time + show.duration

\* resolveActiveClock falling back to the default clock at once
resolveActiveClock_nodaypart(list, registry, t) ==
    LET hits == {i \in DOMAIN list : IsActive(list[i], t)}
    IN  IF hits # {} THEN list[Min(hits)].clock
        ELSE DefaultClock

\* resolveActiveClock: the first active show of the list in list order,
\* else the daypart's clock, else the default clock
resolveActiveClock(list, registry, t) ==
    LET hits == {i \in DOMAIN list : IsActive(list[i], t)}
    IN  IF hits # {} THEN list[Min(hits)].clock
        ELSE IF dayPartOf(t) \in DOMAIN registry THEN registry[dayPartOf(t)]
        ELSE DefaultClock

\* slotAt with no wrap-around: the first slot when none qualifies
slotAt_nowrap(clock, minute) ==
    LET n == Len(clock.slots)
        stop == {i \in 1..n : clock.slots[i].minute_of_hour <= minute}
    IN  IF stop # {}
        THEN clock.slots[CHOOSE i \in stop : \A j \in stop : j <= i]
        ELSE clock.slots[1]

\* slotAt: scanning the sorted slots from the last one backwards, the first
\* slot whose minute_of_hour is at or before minute; the last slot when
\* there is none
slotAt(clock, minute) ==
    LET n == Len(clock.slots)
        stop == {i \in 1..n : clock.slots[i].minute_of_hour <= minute}
    IN  IF stop # {}
        THEN clock.slots[CHOOSE i \in stop : \A j \in stop : j <= i]
        ELSE clock.slots[n]

InitClock ==
    /\ rules = DefaultRules
    /\ history = <<>>
    /\ now = WallStart
    /\ cursor = 0
    /\ candidates = <<>>
    /\ ret = Idle
    /\ prov = <<>>
    /\ asm = [a \in Assemblers |-> AsmIdle]
    /\ library = <<>>
    /\ SchedIdle
    /\ clocks \in Registries
    /\ shows = <<>>
    /\ active = Unresolved
    /\ slot = NoSlot
    /\ ListIdle
    /\ ControlIdle

\* a call of scheduleShow(show)
ScheduleShow ==
    /\ Len(shows) < MaxShows
    /\ \E show \in ShowPool : shows' = scheduleShow(shows, show)
    /\ UNCHANGED <<clocks, active, slot>>
    /\ UNCHANGED clockFrame

\* a call of resolveActiveClock(t)
ResolveActiveClock ==
    /\ \E t \in Instants :
          active' = [at |-> t, clock |-> resolveActiveClock(shows, clocks, t)]
    /\ slot' = NoSlot
    /\ UNCHANGED <<clocks, shows>>
    /\ UNCHANGED clockFrame

\* a call of slotAt(minute) on the clock resolved last
SlotAt ==
    /\ active # Unresolved
    /\ \E minute \in 0..59 :
          slot' = [minute |-> minute, slot |-> slotAt(active.clock, minute)]
    /\ UNCHANGED <<clocks, shows, active>>
    /\ UNCHANGED clockFrame

NextClock == ScheduleShow \/ ResolveActiveClock \/ SlotAt

SpecClock == InitClock /\ [][NextClock]_vars

\* the shows that are active at instant t
ActiveShows(t) ==
    {i \in DOMAIN shows :
        shows[i].start_time <= t /\ t < shows[i].start_time + shows[i].duration}

(* C18  Clock resolution: at every instant, on every show list built by    *)
(* scheduleShow, resolveActiveClock returns a clock: the clock of an       *)
(* active show when there is one (of earliest start when several are       *)
(* active), in preference to the daypart clock; else the clock registered  *)
(* for the daypart of the instant; else the default clock.                 *)
C18_ClockResolution ==
    \A t \in Instants :
        LET r == resolveActiveClock(shows, clocks, t)
        IN  /\ r \in AllClocks
            /\ ActiveShows(t) # {} =>
                  \E i \in ActiveShows(t) :
                      /\ r = shows[i].clock
                      /\ \A j \in ActiveShows(t) :
                            shows[i].start_time <= shows[j].start_time
            /\ ActiveShows(t) = {} =>
                  /\ dayPartOf(t) \in DOMAIN clocks => r = clocks[dayPartOf(t)]
                  /\ dayPartOf(t) \notin DOMAIN clocks => r = DefaultClock

\* resolved while two shows of different start overlap, the later one
\* scheduled first, and the daypart has another clock registered
C18_Witness ==
    /\ active # Unresolved
    /\ \E i, j \in ActiveShows(active.at) :
          /\ i < j
          /\ shows[i].start_time < shows[j].start_time
          /\ active.clock = shows[i].clock
    /\ dayPartOf(active.at) \in DOMAIN clocks
    /\ clocks[dayPartOf(active.at)] # active.clock

\* the slots of clock at or before minute
SlotsUpTo(clock, minute) ==
    {i \in DOMAIN clock.slots : clock.slots[i].minute_of_hour <= minute}

\* what slotAt(minute) has to return on clock
RightSlot(clock, minute, r) ==
    IF SlotsUpTo(clock, minute) # {}
    THEN /\ \E i \in SlotsUpTo(clock, minute) : r = clock.slots[i]
         /\ \A i \in SlotsUpTo(clock, minute) :
               clock.slots[i].minute_of_hour <= r.minute_of_hour
    ELSE r = clock.slots[Len(clock.slots)]

(* C19  Slot lookup: on the resolved clock (every clock has at least one   *)
(* slot) and for every minute of 0..59, slotAt has returned the slot of    *)
(* greatest minute_of_hour at or before the minute, and the last slot of   *)
(* the clock when there is none.                                           *)
C19_SlotLookup ==
    slot # NoSlot => RightSlot(active.clock, slot.minute, slot.slot)

\* slotAt has wrapped around to the last slot of a clock of several slots
C19_Witness ==
    /\ slot # NoSlot
    /\ Len(active.clock.slots) > 1
    /\ SlotsUpTo(active.clock, slot.minute) = {}
    /\ slot.slot = active.clock.slots[Len(active.clock.slots)]

-----------------------------------------------------------------------------
(* Playlist files: core/brain/playlist_manager.py.  A string is the        *)
(* sequence of its characters, a file the sequence of its lines; no string *)
(* of the model holds a line break.                                        *)

\* longest list of tracks exported
MaxTracks == 2

\* str.strip() of a string without line breaks and tabs
Whitespace == {" "}

RECURSIVE lstrip(_)
lstrip(s) ==
    IF s # <<>> /\ Head(s) \in Whitespace THEN lstrip(Tail(s)) ELSE s

RECURSIVE rstrip(_)
rstrip(s) ==
    IF s # <<>> /\ s[Len(s)] \in Whitespace
    THEN rstrip(SubSeq(s, 1, Len(s) - 1))
    ELSE s

strip(s) ==
    rstrip(lstrip(s))

startswith(s, prefix) ==
    Len(s) >= Len(prefix) /\ SubSeq(s, 1, Len(prefix)) = prefix

\* 1-based index of the first occurrence of sub in s, 0 when there is none
find(s, sub) ==
    LET hits == {i \in 1..(Len(s) - Len(sub) + 1) :
                    SubSeq(s, i, i + Len(sub) - 1) = sub}
    IN  IF hits = {} THEN 0 ELSE CHOOSE i \in hits : \A j \in hits : i <= j

\* the two parts of s.split(sep, 1), sep occurring in s
before(s, sep) ==
    SubSeq(s, 1, find(s, sep) - 1)

after(s, sep) ==
    SubSeq(s, find(s, sep) + Len(sep), Len(s))

DecimalDigits == <<"0", "1", "2", "3", "4", "5", "6", "7", "8", "9">>

RECURSIVE digits(_)
digits(n) ==
    IF n < Len(DecimalDigits)
    THEN <<DecimalDigits[n + 1]>>
    ELSE digits(n \div Len(DecimalDigits))
            \o <<DecimalDigits[(n % Len(DecimalDigits)) + 1]>>

\* the f-string rendering of an int
str(n) ==
    IF n < 0 THEN <<"-">> \o digits(-n) ELSE digits(n)

IsDigit(c) ==
    \E d \in DOMAIN DecimalDigits : DecimalDigits[d] = c

DigitValue(c) ==
    (CHOOSE d \in DOMAIN DecimalDigits : DecimalDigits[d] = c) - 1

RECURSIVE number(_)
number(s) ==
    IF s = <<>>
    THEN 0
    ELSE Len(DecimalDigits) * number(SubSeq(s, 1, Len(s) - 1))
            + DigitValue(s[Len(s)])

\* int(s) and int(float(s)) do not raise: an optional sign and digits (the
\* other spellings Python accepts are not written by the exports)
IsInt(s) ==
    LET body == IF s # <<>> /\ Head(s) = "-" THEN Tail(s) ELSE s
    IN  body # <<>> /\ \A i \in DOMAIN body : IsDigit(body[i])

int(s) ==
    IF Head(s) = "-" THEN 0 - number(Tail(s)) ELSE number(s)

\* the four fields of TrackMetadata a playlist file carries
TrackMetadata(file_path, title, artist, duration_seconds) ==
    [file_path |-> file_path, title |-> title, artist |-> artist,
     duration_seconds |-> duration_seconds]

Separator == <<" ", "-", " ">>

Unknown == <<"U", "n", "k", "n", "o", "w", "n">>

UnknownTrack == Unknown \o <<" ", "T", "r", "a", "c", "k">>

ExtM3u == <<"#", "E", "X", "T", "M", "3", "U">>

ExtInfTag == <<"#", "E", "X", "T", "I", "N", "F", ":">>

\* the #EXTINF line of a track
ExtInf(track) ==
    LET duration == IF track.duration_seconds # 0
                    THEN track.duration_seconds ELSE 0 - 1
        info == IF track.artist # <<>> /\ track.title # <<>>
                THEN track.artist \o Separator \o track.title
                ELSE IF track.title # <<>> THEN track.title ELSE UnknownTrack
    IN  ExtInfTag \o str(duration) \o <<",">> \o info

RECURSIVE m3u_entries(_)
m3u_entries(tracks) ==
    IF tracks = <<>>
    THEN <<>>
    ELSE <<ExtInf(Head(tracks)), Head(tracks).file_path>>
            \o m3u_entries(Tail(tracks))

\* the lines export_m3u writes (relative_paths = False, the default)
export_m3u(tracks) ==
    <<ExtM3u>> \o m3u_entries(tracks)

\* Path(path).stem
stem(path) ==
    LET slashes == {i \in DOMAIN path : path[i] = "/"}
        from == IF slashes = {} THEN 1
                ELSE (CHOOSE i \in slashes : \A j \in slashes : j <= i) + 1
        name == SubSeq(path, from, Len(path))
        dots == {i \in 2..(Len(name) - 1) : name[i] = "."}
    IN  IF dots = {} THEN name
        ELSE SubSeq(name, 1, (CHOOSE i \in dots : \A j \in dots : j <= i) - 1)

\* the track parse_m3u builds at a path line; current_info None is <<>>
M3uTrack(path, current_info, current_duration) ==
    IF current_info # <<>>
    THEN IF find(current_info, Separator) # 0
         THEN TrackMetadata(path, strip(after(current_info, Separator)),
                            strip(before(current_info, Separator)),
                            current_duration)
         ELSE TrackMetadata(path, strip(current_info), Unknown,
                            current_duration)
    ELSE TrackMetadata(path, stem(path), Unknown, current_duration)

RECURSIVE parse_m3u_lines(_, _, _, _)
parse_m3u_lines(lines, current_info, current_duration, tracks) ==
    IF lines = <<>>
    THEN tracks
    ELSE LET line == strip(Head(lines))
             rest == Tail(lines)
             meta_part == SubSeq(line, Len(ExtInfTag) + 1, Len(line))
         IN  IF line = <<>>
             THEN parse_m3u_lines(rest, current_info, current_duration, tracks)
             ELSE IF startswith(line, ExtInfTag)
             THEN IF find(meta_part, <<",">>) = 0
                  THEN parse_m3u_lines(rest, meta_part, current_duration,
                                       tracks)
                  ELSE IF IsInt(before(meta_part, <<",">>))
                  THEN parse_m3u_lines(rest, after(meta_part, <<",">>),
                                       int(before(meta_part, <<",">>)), tracks)
                  ELSE parse_m3u_lines(rest, Unknown, current_duration, tracks)
             ELSE IF startswith(line, <<"#">>)
             THEN parse_m3u_lines(rest, current_info, current_duration, tracks)
             ELSE parse_m3u_lines(rest, <<>>, 0,
                     Append(tracks,
                            M3uTrack(line, current_info, current_duration)))

parse_m3u(lines) ==
    parse_m3u_lines(lines, <<>>, 0, <<>>)

PlaylistSection == <<"[", "p", "l", "a", "y", "l", "i", "s", "t", "]">>

NumberOfEntries ==
    <<"N", "u", "m", "b", "e", "r", "O", "f", "E", "n", "t", "r", "i", "e", "s">>

FileKey(i) == <<"F", "i", "l", "e">> \o str(i)

TitleKey(i) == <<"T", "i", "t", "l", "e">> \o str(i)

LengthKey(i) == <<"L", "e", "n", "g", "t", "h">> \o str(i)

VersionLine == <<"V", "e", "r", "s", "i", "o", "n", "=", "2">>

\* the three lines of entry i
PlsEntry(i, track) ==
    LET title_str == IF track.artist # <<>>
                     THEN track.artist \o Separator \o track.title
                     ELSE track.title
        length == IF track.duration_seconds # 0
                  THEN track.duration_seconds ELSE 0 - 1
    IN  << FileKey(i) \o <<"=">> \o track.file_path,
           TitleKey(i) \o <<"=">> \o title_str,
           LengthKey(i) \o <<"=">> \o str(length) >>

RECURSIVE pls_entries(_, _)
pls_entries(tracks, i) ==
    IF i > Len(tracks)
    THEN <<>>
    ELSE PlsEntry(i, tracks[i]) \o pls_entries(tracks, i + 1)

\* the lines export_pls writes
export_pls(tracks) ==
    <<PlaylistSection, NumberOfEntries \o <<"=">> \o str(Len(tracks))>>
        \o pls_entries(tracks, 1) \o <<VersionLine>>

(* configparser.ConfigParser().read on a file of unindented lines: the     *)
(* first line is the section header, a line starting with # or ; is a      *)
(* comment, every other line is split at its first = or : into a stripped  *)
(* key and a stripped value.  Keys are compared after the same lower-      *)
(* casing on both sides, which the model leaves out.                       *)
Delimiter(line) ==
    LET hits == {i \in DOMAIN line : line[i] \in {"=", ":"}}
    IN  IF hits = {} THEN 0 ELSE CHOOSE i \in hits : \A j \in hits : i <= j

IsComment(line) ==
    startswith(line, <<"#">>) \/ startswith(line, <<";">>)

OptionLines(lines) ==
    {i \in 2..Len(lines) :
        strip(lines[i]) # <<>> /\ ~IsComment(strip(lines[i]))}

\* read raises (MissingSectionHeaderError, ParsingError)
read_raises(lines) ==
    \/ lines = <<>>
    \/ strip(lines[1]) # PlaylistSection
    \/ \E i \in OptionLines(lines) : Delimiter(strip(lines[i])) = 0

has_option(lines, key) ==
    \E i \in OptionLines(lines) :
        strip(SubSeq(strip(lines[i]), 1, Delimiter(strip(lines[i])) - 1)) = key

\* the value stored for key, before interpolation
raw(lines, key) ==
    LET i == CHOOSE i \in OptionLines(lines) :
                strip(SubSeq(strip(lines[i]), 1,
                             Delimiter(strip(lines[i])) - 1)) = key
        line == strip(lines[i])
    IN  strip(SubSeq(line, Delimiter(line) + 1, Len(line)))

\* BasicInterpolation on a value without "(": %% is %, any other % raises
RECURSIVE interpolate_raises(_)
interpolate_raises(value) ==
    LET p == find(value, <<"%">>)
    IN  IF p = 0 THEN FALSE
        ELSE IF p < Len(value) /\ value[p + 1] = "%"
        THEN interpolate_raises(SubSeq(value, p + 2, Len(value)))
        ELSE TRUE

RECURSIVE interpolate(_)
interpolate(value) ==
    LET p == find(value, <<"%">>)
    IN  IF p = 0 THEN value
        ELSE SubSeq(value, 1, p)
                \o interpolate(SubSeq(value, p + 2, Len(value)))

\* parser.get / parser.getint raise
get_raises(lines, key) ==
    has_option(lines, key) /\ interpolate_raises(raw(lines, key))

getint_raises(lines, key) ==
    /\ has_option(lines, key)
    /\ \/ interpolate_raises(raw(lines, key))
       \/ ~IsInt(interpolate(raw(lines, key)))

get(lines, key, fallback) ==
    IF has_option(lines, key) THEN interpolate(raw(lines, key)) ELSE fallback

getint(lines, key, fallback) ==
    IF has_option(lines, key) THEN int(interpolate(raw(lines, key)))
    ELSE fallback

\* the track parse_pls builds for entry i
PlsTrack(lines, i) ==
    LET path == get(lines, FileKey(i), <<>>)
        title_raw == get(lines, TitleKey(i), Unknown)
        length == getint(lines, LengthKey(i), 0)
    IN  IF find(title_raw, Separator) # 0
        THEN TrackMetadata(path, strip(after(title_raw, Separator)),
                           strip(before(title_raw, Separator)), length)
        ELSE TrackMetadata(path, title_raw, Unknown, length)

RECURSIVE pls_tracks(_, _, _)
pls_tracks(lines, i, count) ==
    IF i > count
    THEN <<>>
    ELSE IF has_option(lines, FileKey(i))
    THEN <<PlsTrack(lines, i)>> \o pls_tracks(lines, i + 1, count)
    ELSE pls_tracks(lines, i + 1, count)

\* some statement inside the try block of parse_pls raises
parse_pls_raises(lines) ==
    \/ read_raises(lines)
    \/ getint_raises(lines, NumberOfEntries)
    \/ \E i \in 1..getint(lines, NumberOfEntries, 0) :
          /\ has_option(lines, FileKey(i))
          /\ \/ get_raises(lines, FileKey(i))
             \/ get_raises(lines, TitleKey(i))
             \/ getint_raises(lines, LengthKey(i))

parse_pls(lines) ==
    IF parse_pls_raises(lines)
    THEN <<>>
    ELSE pls_tracks(lines, 1, getint(lines, NumberOfEntries, 0))

\* the tracks handed to the exports
Song1 ==
    TrackMetadata(<<"/", "m", "/", "1", ".", "m", "p", "3">>,
                  <<"S", "o", "n", "g", " ", "1">>, <<"A", "1">>, 180)

Song2 ==
    TrackMetadata(<<"/", "m", "/", "2", ".", "m", "p", "3">>,
                  <<"S", "o", "n", "g", " ", "2">>, <<"A", "2">>, 200)

\* duration_seconds left at its default
Untimed ==
    TrackMetadata(<<"/", "m", "/", "3", ".", "m", "p", "3">>,
                  <<"S", "3">>, <<"A", "3">>, 0)

NoArtist ==
    TrackMetadata(<<"/", "m", "/", "4", ".", "m", "p", "3">>,
                  <<"S", "4">>, <<>>, 240)

\* the artist holds the separator
Duo ==
    TrackMetadata(<<"/", "m", "/", "5", ".", "m", "p", "3">>,
                  <<"S", "5">>, <<"A", " ", "-", " ", "B">>, 150)

Percent ==
    TrackMetadata(<<"/", "m", "/", "6", ".", "m", "p", "3">>,
                  <<"5", "0", "%">>, <<"A", "6">>, 120)

Hashed ==
    TrackMetadata(<<"#", "7", ".", "m", "p", "3">>,
                  <<"S", "7">>, <<"A", "7">>, 100)

Blank ==
    TrackMetadata(<<"/", "m", "/", "8", ".", "m", "p", "3">>,
                  <<" ">>, <<>>, 90)

TrackPool == {Song1, Song2, Untimed, NoArtist, Duo, Percent, Hashed, Blank}

RECURSIVE TrackLists(_)
TrackLists(n) ==
    IF n = 0
    THEN {<<>>}
    ELSE TrackLists(n - 1)
            \cup {Append(l, t) : l \in TrackLists(n - 1), t \in TrackPool}

InitList ==
    /\ rules = DefaultRules
    /\ history = <<>>
    /\ now = WallStart
    /\ cursor = 0
    /\ candidates = <<>>
    /\ ret = Idle
    /\ prov = <<>>
    /\ asm = [a \in Assemblers |-> AsmIdle]
    /\ library = <<>>
    /\ SchedIdle
    /\ ClockIdle
    /\ export_tracks \in TrackLists(MaxTracks)
    /\ playlist_file = NoFile
    /\ parsed = NotParsed
    /\ ControlIdle

\* PlaylistManager.export_m3u(tracks, "….m3u")
ExportM3u ==
    /\ playlist_file' = [format |-> "m3u", lines |-> export_m3u(export_tracks)]
    /\ UNCHANGED <<export_tracks, parsed>>
    /\ UNCHANGED listFrame

\* PlaylistManager.parse_m3u of the file export_m3u wrote
ParseM3u ==
    /\ playlist_file.format = "m3u"
    /\ parsed' = [from |-> "m3u", tracks |-> parse_m3u(playlist_file.lines)]
    /\ UNCHANGED <<export_tracks, playlist_file>>
    /\ UNCHANGED listFrame

\* PlaylistManager.export_pls(tracks, "….pls")
ExportPls ==
    /\ playlist_file' = [format |-> "pls", lines |-> export_pls(export_tracks)]
    /\ UNCHANGED <<export_tracks, parsed>>
    /\ UNCHANGED listFrame

\* PlaylistManager.parse_pls of the file export_pls wrote
ParsePls ==
    /\ playlist_file.format = "pls"
    /\ parsed' = [from |-> "pls", tracks |-> parse_pls(playlist_file.lines)]
    /\ UNCHANGED <<export_tracks, playlist_file>>
    /\ UNCHANGED listFrame

NextList == ExportM3u \/ ParseM3u \/ ExportPls \/ ParsePls

SpecList == InitList /\ [][NextList]_vars

(* C20  Playlist round trip: for every list of tracks, parsing the file    *)
(* written by export_m3u with parse_m3u, and the file written by           *)
(* export_pls with parse_pls, returns the same number of tracks in the     *)
(* same order, each with the original file_path, title, artist and         *)
(* duration_seconds.                                                       *)
C20_RoundTrip ==
    parsed.from # "none" =>
        /\ Len(parsed.tracks) = Len(export_tracks)
        /\ \A i \in DOMAIN parsed.tracks :
              i \in DOMAIN export_tracks =>
                  /\ parsed.tracks[i].file_path = export_tracks[i].file_path
                  /\ parsed.tracks[i].title = export_tracks[i].title
                  /\ parsed.tracks[i].artist = export_tracks[i].artist
                  /\ parsed.tracks[i].duration_seconds
                        = export_tracks[i].duration_seconds

----------------------------------------------------------------------------
(* The two passes of select_track, stated with the checks themselves *)

\* the checks of the strict pass, with the caller's enforce_dmca
PassesChecks(X, t, enforce_dmca) ==
    /\ check_separation(history, X, t)
    /\ enforce_dmca => check_dmca(history, X, t)

(* C22  Strict selection: whenever some candidate passes check_separation  *)
(* and, with enforce_dmca, check_dmca at the time of the call,             *)
(* select_track returns from its strict pass a member of the pool that     *)
(* passes those checks; with an empty history and a pool that is not       *)
(* empty the returned candidate passes both checks; with enforce_dmca off  *)
(* check_dmca does not count.                                              *)
C22_StrictSelection ==
    /\ Selected =>
          /\ (\E X \in Range(candidates) : PassesChecks(X, cursor, ret.enforce_dmca))
                => /\ ret.via = "strict"
                   /\ ret.track \in Range(candidates)
                   /\ PassesChecks(ret.track, cursor, ret.enforce_dmca)
          /\ (history = <<>> /\ candidates # <<>>)
                => /\ ret.track \in Range(candidates)
                   /\ check_separation(history, ret.track, cursor)
                   /\ check_dmca(history, ret.track, cursor)
    /\ \A pool \in Shuffles(candidates), t \in QueryTimes :
          (\E i \in DOMAIN pool : check_separation(history, pool[i], t))
              => check_separation(history,
                                  select_track(history, pool, t, FALSE).track, t)

\* the strict pass, rights check off, returned a track check_dmca rejects
\* while another candidate meets the degraded rule only
C22_Witness ==
    /\ ret.via = "strict" /\ ~ret.enforce_dmca
    /\ ~check_dmca(history, ret.track, cursor)
    /\ \E X \in Range(candidates) :
          /\ ~check_separation(history, X, cursor)
          /\ RelaxedOk(history, X, cursor)

----------------------------------------------------------------------------
(* Pools that hold two copies of one recording: TrackA and TrackB share    *)
(* their file hash and differ in path.                                     *)

CopyLists == { <<TrackA, TrackB>>, <<TrackB, TrackD>>, <<TrackA, TrackB, TrackC>> }

InitCopies ==
    /\ rules \in RuleSets
    /\ history = <<>>
    /\ now = WallStart
    /\ cursor = 0
    /\ candidates \in CopyLists
    /\ ret = Idle
    /\ prov = <<>>
    /\ OtherInit

\* commits of selections from such pools
SpecCopies == InitCopies /\ [][NextCommit]_vars

(* C23  Degraded selection: when no candidate passes the strict checks,    *)
(* select_track returns a candidate whose own track identity (file hash    *)
(* or file path) has no history entry within track_separation of the time  *)
(* of the call, whatever its artist, title and rights counts, and None     *)
(* only when there is no such candidate; the returned track is never the   *)
(* same track as one played within track_separation.                       *)
C23_DegradedSelection ==
    (/\ Selected
     /\ \A X \in Range(candidates) : ~PassesChecks(X, cursor, ret.enforce_dmca))
        => /\ ret.track # NoTrack =>
                 /\ ret.track \in Range(candidates)
                 /\ ~RecentPlayOf(ret.track, cursor)
           /\ ret.track = NoTrack =>
                 \A X \in Range(candidates) : RecentPlayOf(X, cursor)

(* C26  No literal repeat across commits: after any sequence of commits    *)
(* at non-decreasing times from an empty history, no two entries of the    *)
(* history with the same track identity (file hash or file path) have      *)
(* played_at values less than track_separation apart, entries committed    *)
(* from the degraded fallback included.                                    *)
C26_NoLiteralRepeat ==
    \A i, j \in DOMAIN history :
        (i < j /\ SameIdentity(history[i].track, history[j].track)) =>
            history[j].played_at - history[i].played_at
                >= rules.track_separation_minutes

----------------------------------------------------------------------------
(* Durations of the items of a plan.  generate_hour_block reads no         *)
(* duration; the figures below are what the items it places carry.         *)

\* duration_seconds of a demo track and of the ad placeholder
DemoSeconds == 180
AdSeconds == 30
\* "avg 150 wpm", "max(2, ...)" in _create_voice_track
WordsPerMinute == 150
MinVoiceSeconds == 2
\* words of a script the content engine returns, seconds of a library track
ScriptWords == 25
HotSeconds == 200

\* max(2, int((word_count / 150) * 60))
VoiceSeconds(word_count) ==
    IF (word_count * 60) \div WordsPerMinute > MinVoiceSeconds
    THEN (word_count * 60) \div WordsPerMinute
    ELSE MinVoiceSeconds

\* duration_seconds of an item of the plan; a ramp mix keeps its song's
DurationSeconds(item) ==
    IF IsVoice(item) THEN VoiceSeconds(ScriptWords)
    ELSE IF item = DummyAd THEN AdSeconds
    ELSE IF item.artist = "Unknown Artist" THEN DemoSeconds
    ELSE HotSeconds

RECURSIVE PlanSeconds(_)
PlanSeconds(plan) ==
    IF plan = <<>> THEN 0
    ELSE DurationSeconds(Head(plan)) + PlanSeconds(Tail(plan))

\* the stopping threshold of the hour fill: 55 minutes
StopSeconds == 55 * 60

(* C24  Hour fill: once the fixed part of the hour is placed, the hour is  *)
(* filled with music until the cumulative duration of the plan reaches     *)
(* the stopping threshold of 55 minutes or no music is left to place.      *)
C24_HourFill ==
    HourDone =>
        \/ PlanSeconds(playlist_tracks) >= StopSeconds
        \/ music_idx >= Len(music_tracks)

\* the places of music_tracks whose track the plan carries
PlacedMusic ==
    {k \in DOMAIN music_tracks : CarryingItems(music_tracks[k]) # {}}

(* C27  Music placement within an hour: in every plan, finished or under   *)
(* way, each track of the hour's music pool is placed at most once, the    *)
(* tracks placed are the first music_idx tracks of the pool and stand in   *)
(* the plan in pool order, and at most 12 music tracks are placed,         *)
(* whatever the voice and mixing steps did.                                *)
C27_MusicPlacement ==
    /\ \A k \in DOMAIN music_tracks :
          Cardinality(CarryingItems(music_tracks[k])) <= 1
    /\ PlacedMusic = 1..music_idx
    /\ \A j, k \in PlacedMusic :
          j < k => \A m \in CarryingItems(music_tracks[j]),
                      n \in CarryingItems(music_tracks[k]) : m < n
    /\ music_idx <= SongsPerHour
    /\ Cardinality({n \in DOMAIN playlist_tracks :
            \E k \in DOMAIN music_tracks :
                Carries(playlist_tracks[n], music_tracks[k])}) <= SongsPerHour

\* a returned plan of 12 songs out of a larger pool, a ramp mix among them,
\* the news item missing
C27_Witness ==
    /\ HourDone
    /\ music_idx = SongsPerHour /\ Len(music_tracks) > SongsPerHour
    /\ \E n \in DOMAIN playlist_tracks : IsMixed(playlist_tracks[n])
    /\ ~\E n \in DOMAIN playlist_tracks :
          playlist_tracks[n].title = <<"News Update">>

----------------------------------------------------------------------------
(* Components outside the rotation core start from this state of the core *)

CoreIdle ==
    /\ rules = DefaultRules
    /\ history = <<>>
    /\ now = WallStart
    /\ cursor = 0
    /\ candidates = <<>>
    /\ ret = Idle
    /\ prov = <<>>
    /\ asm = [a \in Assemblers |-> AsmIdle]
    /\ library = <<>>
    /\ SchedIdle
    /\ ClockIdle
    /\ ListIdle

----------------------------------------------------------------------------
(* ShowRunner.get_current_daypart: core/brain/agents/content.py *)

\* the chain of ifs on hour = datetime.now().hour
get_current_daypart(h) ==
    IF 5 <= h /\ h < 10 THEN "morning"
    ELSE IF 10 <= h /\ h < 15 THEN "midday"
    ELSE IF 15 <= h /\ h < 19 THEN "afternoon"
    ELSE IF 19 <= h /\ h < 24 THEN "evening"
    ELSE "overnight"

InitRunner ==
    /\ CoreIdle
    /\ runner_hour \in 0..(HoursPerDay - 1)
    /\ daypart = NoDaypart
    /\ DeckIdle /\ LiveIdle /\ PollIdle

\* the wall clock reaches the next hour
HourPasses ==
    /\ runner_hour' = (runner_hour + 1) % HoursPerDay
    /\ UNCHANGED daypart
    /\ UNCHANGED runnerFrame

\* a call of get_current_daypart()
GetCurrentDaypart ==
    /\ daypart' = [hour |-> runner_hour, part |-> get_current_daypart(runner_hour)]
    /\ UNCHANGED runner_hour
    /\ UNCHANGED runnerFrame

NextRunner == HourPasses \/ GetCurrentDaypart

SpecRunner == InitRunner /\ [][NextRunner]_vars

\* the daypart the mapping of the claim gives to hour h
ClaimedDaypart(h) ==
    IF h <= 5 THEN "overnight"
    ELSE IF h <= 9 THEN "morning"
    ELSE IF h <= 14 THEN "midday"
    ELSE IF h <= 18 THEN "afternoon"
    ELSE "evening"

(* C25  Daypart mapping: the daypart returned for an hour of the day is    *)
(* overnight for 0-5, morning for 6-9, midday for 10-14, afternoon for     *)
(* 15-18 and evening for 19-23, one of the five dayparts for every hour.   *)
C25_DaypartMapping ==
    daypart # NoDaypart =>
        /\ daypart.part \in DayParts
        /\ daypart.part = ClaimedDaypart(daypart.hour)

----------------------------------------------------------------------------
(* cortex.push_to_deck: the telnet interface to Liquidsoap.  A string is   *)
(* the sequence of its characters; the constant head of the command is     *)
(* one element.                                                            *)

\* longest next_track, most calls of push_to_deck
MaxName == 3
MaxPush == 1

LF == "\n"

CR == "\r"

\* the characters of a track name in the model
NameChars == {"s", LF, CR}

RECURSIVE Names(_)
Names(n) ==
    IF n = 0
    THEN {<<>>}
    ELSE Names(n - 1) \cup {Append(s, c) : s \in Names(n - 1), c \in NameChars}

\* str.replace(old, '') for a one-character old
RECURSIVE replace(_, _)
replace(s, old) ==
    IF s = <<>> THEN <<>>
    ELSE IF Head(s) = old THEN replace(Tail(s), old)
    ELSE <<Head(s)>> \o replace(Tail(s), old)

\* a sanitizer that forgets the carriage return
clean_track_lf(name) ==
    replace(name, LF)

\* state['next_track'].replace('\n', '').replace('\r', '')
clean_track(name) ==
    replace(replace(name, LF), CR)

PushCommand == "brain_queue.push /music/"

\* f"brain_queue.push /music/{clean_track}\n"
cmd(name) ==
    <<PushCommand>> \o clean_track(name) \o <<LF>>

InitDeck ==
    /\ CoreIdle
    /\ next_track \in Names(MaxName)
    /\ deck_writes = <<>>
    /\ deck_history = <<>>
    /\ RunnerIdle /\ LiveIdle /\ PollIdle

\* a call of push_to_deck(state): the connection is opened and the command
\* written, or open_connection fails; the track joins the history in both
PushToDeck ==
    /\ Len(deck_history) < MaxPush
    /\ \E connected \in BOOLEAN :
          deck_writes' = IF connected
                         THEN Append(deck_writes, cmd(next_track))
                         ELSE deck_writes
    /\ deck_history' = Append(deck_history, next_track)
    /\ UNCHANGED next_track
    /\ UNCHANGED deckFrame

NextDeck == PushToDeck

SpecDeck == InitDeck /\ [][NextDeck]_vars

\* the places of a text that hold a carriage return or a newline
LineBreaks(text) ==
    {k \in DOMAIN text : text[k] \in {LF, CR}}

(* C21  Command-injection prevention: whatever the next_track, the text    *)
(* push_to_deck writes to the telnet connection holds no carriage return   *)
(* and no newline but its last character, a newline, and starts with       *)
(* brain_queue.push: one call writes at most once, one command.            *)
C21_OneCommand ==
    /\ Len(deck_writes) <= Len(deck_history)
    /\ \A i \in DOMAIN deck_writes :
          /\ deck_writes[i][1] = PushCommand
          /\ deck_writes[i][Len(deck_writes[i])] = LF
          /\ LineBreaks(deck_writes[i]) = {Len(deck_writes[i])}

\* a command was written for a track name that holds a newline and a
\* carriage return
C21_Witness ==
    /\ deck_writes # <<>>
    /\ \E k, l \in DOMAIN deck_history[1] :
          deck_history[1][k] = LF /\ deck_history[1][l] = CR

----------------------------------------------------------------------------
(* live_assist: LiveAssistController and the EmergencyController built on  *)
(* it.  Time is in seconds; an audio level is in hundredths.               *)

\* the clock of the controllers advances by LiveStep up to MaxLiveClock
LiveStep == 5
MaxLiveClock == 20

\* OverrideLevel
OverrideLevels == {"full_auto", "assisted", "manual", "emergency"}

Hosts == {"dj"}

\* audio_level arguments of check_silence: 0.0, 0.01 and 0.5
AudioLevels == {0, 1, 50}

\* if audio_level > 0.01
AudibleAbove == 1

\* self.silence_threshold_seconds = 10
silence_threshold_seconds == 10

LiveSession(host, level) ==
    [host_name |-> host, override_level |-> level]

InitLive ==
    /\ CoreIdle
    /\ RunnerIdle /\ DeckIdle /\ PollIdle
    /\ override_level = "full_auto"
    /\ current_session = NoSession
    /\ emergency_active = FALSE
    /\ last_audio_time = 0
    /\ live_clock = 0

LiveTick ==
    /\ live_clock + LiveStep <= MaxLiveClock
    /\ live_clock' = live_clock + LiveStep
    /\ UNCHANGED <<override_level, current_session, emergency_active,
                   last_audio_time>>
    /\ UNCHANGED liveFrame

\* LiveAssistController.set_override_level(level)
SetOverrideLevel(level) ==
    /\ override_level' = level
    /\ UNCHANGED <<current_session, emergency_active, last_audio_time,
                   live_clock>>
    /\ UNCHANGED liveFrame

\* LiveAssistController.start_live_session(host_name, level): an active
\* session is ended first (level back to full_auto), then the new session
\* sets its level
StartLiveSession(host, level) ==
    /\ current_session' = LiveSession(host, level)
    /\ override_level' = level
    /\ UNCHANGED <<emergency_active, last_audio_time, live_clock>>
    /\ UNCHANGED liveFrame

\* LiveAssistController.end_live_session(): nothing without a session
EndLiveSession ==
    /\ IF current_session = NoSession
       THEN UNCHANGED <<override_level, current_session>>
       ELSE /\ override_level' = "full_auto"
            /\ current_session' = NoSession
    /\ UNCHANGED <<emergency_active, last_audio_time, live_clock>>
    /\ UNCHANGED liveFrame

\* EmergencyController.activate_emergency(): fire_cart only triggers events
ActivateEmergency ==
    /\ emergency_active' = TRUE
    /\ override_level' = "emergency"
    /\ UNCHANGED <<current_session, last_audio_time, live_clock>>
    /\ UNCHANGED liveFrame

\* EmergencyController.deactivate_emergency()
DeactivateEmergency ==
    /\ emergency_active' = FALSE
    /\ override_level' = "full_auto"
    /\ UNCHANGED <<current_session, last_audio_time, live_clock>>
    /\ UNCHANGED liveFrame

\* EmergencyController.check_silence(audio_level)
CheckSilence(audio_level) ==
    /\ IF audio_level > AudibleAbove
       THEN /\ last_audio_time' = live_clock
            /\ UNCHANGED <<emergency_active, override_level>>
       ELSE /\ UNCHANGED last_audio_time
            /\ IF /\ live_clock - last_audio_time >= silence_threshold_seconds
                  /\ ~emergency_active
               THEN /\ emergency_active' = TRUE
                    /\ override_level' = "emergency"
               ELSE UNCHANGED <<emergency_active, override_level>>
    /\ UNCHANGED <<current_session, live_clock>>
    /\ UNCHANGED liveFrame

NextLive ==
    \/ LiveTick
    \/ \E level \in OverrideLevels : SetOverrideLevel(level)
    \/ \E host \in Hosts, level \in OverrideLevels :
          StartLiveSession(host, level)
    \/ EndLiveSession
    \/ ActivateEmergency
    \/ DeactivateEmergency
    \/ \E audio_level \in AudioLevels : CheckSilence(audio_level)

SpecLive == InitLive /\ [][NextLive]_vars

(* C28  Emergency/override consistency: in every state reached through     *)
(* activate_emergency, deactivate_emergency, check_silence,                *)
(* start_live_session, end_live_session and set_override_level, the        *)
(* emergency flag is set only while the override level is EMERGENCY.       *)
C28_EmergencyConsistency ==
    emergency_active => override_level = "emergency"

----------------------------------------------------------------------------
(* content_scheduler: one Schedule of a ContentScheduler, its background   *)
(* loop threads, and the calls of update, toggle, start and stop.  Time is *)
(* in seconds since midnight.                                              *)

\* the clock starts at PollStart and advances by PollStep up to MaxPollClock
PollStart == 60
PollStep == 30
MaxPollClock == 180

\* most firings recorded, most loop threads started
MaxFires == 2
MaxLoops == 2

SecondsPerMinute == 60

SecondsPerHour == 3600

\* await asyncio.sleep(30)
SleepSeconds == 30

\* ScheduleInterval values of the model
EveryHour == "Every hour"

Every30Min == "Every 30 minutes"

Every15Min == "Every 15 minutes"

Custom == "Custom"

Intervals == {EveryHour, Every30Min}

\* minute_offset values an update carries: the default of smart_hourly and
\* a value that is not a minute
MinuteOffsets == {2, 75}

\* now.replace(minute=0, second=0, microsecond=0)
HourStart(t) ==
    (t \div SecondsPerHour) * SecondsPerHour

\* now.minute
MinuteOf(t) ==
    (t % SecondsPerHour) \div SecondsPerMinute

\* now.replace(minute=..) raises ValueError unless the minute is in 0..59
calculate_next_run_raises(s) ==
    s.interval = EveryHour /\ s.minute_offset \notin 0..59

\* Schedule.calculate_next_run() called at the instant t
calculate_next_run(s, t) ==
    IF s.interval = EveryHour
    THEN LET next_run == HourStart(t) + s.minute_offset * SecondsPerMinute
         IN  IF next_run <= t THEN next_run + SecondsPerHour ELSE next_run
    ELSE IF s.interval = Every30Min
    THEN IF MinuteOf(t) < 30
         THEN HourStart(t) + 30 * SecondsPerMinute
         ELSE HourStart(t) + SecondsPerHour
    ELSE IF s.interval = Every15Min
    THEN LET next_minute == ((MinuteOf(t) \div 15) + 1) * 15
         IN  IF next_minute >= 60
             THEN HourStart(t) + SecondsPerHour
             ELSE HourStart(t) + next_minute * SecondsPerMinute
    ELSE t + SecondsPerHour

\* the smart_hourly schedule of _create_defaults
SmartHourly ==
    [interval |-> EveryHour, minute_offset |-> 2, enabled |-> TRUE,
     last_run |-> 0 - 1, next_run |-> 0 - 1]

\* one thread running _run_loop
LoopThread(position, wake_at) ==
    [pc |-> position, wake_at |-> wake_at]

InitPoll ==
    /\ CoreIdle
    /\ RunnerIdle /\ DeckIdle /\ LiveIdle
    /\ poll_clock = PollStart
    /\ schedule = [SmartHourly EXCEPT
                     !.next_run = calculate_next_run(SmartHourly, PollStart)]
    /\ running = FALSE
    /\ loops = <<>>
    /\ fires = <<>>

PollTick ==
    /\ poll_clock + PollStep <= MaxPollClock
    /\ poll_clock' = poll_clock + PollStep
    /\ UNCHANGED <<schedule, running, loops, fires>>
    /\ UNCHANGED pollFrame

\* ContentScheduler.update(id, {interval, minute_offset}): the rebuilt
\* schedule is stored before calculate_next_run is called on it
Update(interval, minute_offset) ==
    /\ LET stored == [schedule EXCEPT !.interval = interval,
                                      !.minute_offset = minute_offset]
       IN  schedule' =
              IF calculate_next_run_raises(stored)
              THEN stored
              ELSE [stored EXCEPT
                      !.next_run = calculate_next_run(stored, poll_clock)]
    /\ UNCHANGED <<running, loops, poll_clock, fires>>
    /\ UNCHANGED pollFrame

\* ContentScheduler.toggle(id)
Toggle ==
    /\ LET flipped == [schedule EXCEPT !.enabled = ~schedule.enabled]
       IN  schedule' =
              IF flipped.enabled /\ ~calculate_next_run_raises(flipped)
              THEN [flipped EXCEPT
                      !.next_run = calculate_next_run(flipped, poll_clock)]
              ELSE flipped
    /\ UNCHANGED <<running, loops, poll_clock, fires>>
    /\ UNCHANGED pollFrame

\* ContentScheduler.start()
Start ==
    /\ running \/ Len(loops) < MaxLoops
    /\ IF running
       THEN UNCHANGED <<running, loops>>
       ELSE /\ running' = TRUE
            /\ loops' = Append(loops, LoopThread("check", poll_clock))
    /\ UNCHANGED <<schedule, poll_clock, fires>>
    /\ UNCHANGED pollFrame

\* ContentScheduler.stop()
Stop ==
    /\ running' = FALSE
    /\ UNCHANGED <<schedule, loops, poll_clock, fires>>
    /\ UNCHANGED pollFrame

\* the schedule is triggered by the pass of the loop at poll_clock
Due ==
    /\ schedule.enabled
    /\ schedule.next_run # 0 - 1
    /\ poll_clock >= schedule.next_run

\* the schedule after a trigger: last_run is set, then calculate_next_run
\* either gives the new next_run or raises into the outer except
Triggered ==
    LET ran == [schedule EXCEPT !.last_run = poll_clock]
    IN  IF calculate_next_run_raises(ran)
        THEN ran
        ELSE [ran EXCEPT !.next_run = calculate_next_run(ran, poll_clock)]

\* one pass of `while self._running:` in the loop thread i: the thread
\* leaves the loop, or checks the schedule, calls the callbacks (one of
\* which may raise) and goes to sleep
LoopCheck(i) ==
    /\ loops[i].pc = "check"
    /\ IF ~running
       THEN /\ loops' = [loops EXCEPT ![i] = LoopThread("done", poll_clock)]
            /\ UNCHANGED <<schedule, fires>>
       ELSE /\ loops' = [loops EXCEPT
                           ![i] = LoopThread("sleep", poll_clock + SleepSeconds)]
            /\ IF Due
               THEN /\ Len(fires) < MaxFires
                    /\ \E callback_raises \in BOOLEAN :
                          fires' = Append(fires,
                                      [at |-> poll_clock,
                                       enabled |-> schedule.enabled,
                                       due |-> schedule.next_run,
                                       callback_raises |-> callback_raises,
                                       next_run |-> Triggered.next_run])
                    /\ schedule' = Triggered
               ELSE UNCHANGED <<schedule, fires>>
    /\ UNCHANGED <<running, poll_clock>>
    /\ UNCHANGED pollFrame

\* asyncio.sleep(30) returns in the loop thread i
LoopWake(i) ==
    /\ loops[i].pc = "sleep"
    /\ poll_clock >= loops[i].wake_at
    /\ loops' = [loops EXCEPT ![i] = LoopThread("check", poll_clock)]
    /\ UNCHANGED <<schedule, running, poll_clock, fires>>
    /\ UNCHANGED pollFrame

NextPoll ==
    \/ PollTick
    \/ \E interval \in Intervals, minute_offset \in MinuteOffsets :
          Update(interval, minute_offset)
    \/ Toggle
    \/ Start
    \/ Stop
    \/ \E i \in DOMAIN loops : LoopCheck(i)
    \/ \E i \in DOMAIN loops : LoopWake(i)

SpecPoll == InitPoll /\ [][NextPoll]_vars

(* C29  Schedule trigger advances: a schedule fires its callbacks only if  *)
(* it is enabled and now >= next_run, after a firing its next_run is       *)
(* strictly later than the firing time, also when a callback raises, and   *)
(* it does not fire again for the same due time.                           *)
C29_TriggerAdvances ==
    /\ \A k \in DOMAIN fires :
          /\ fires[k].enabled
          /\ fires[k].at >= fires[k].due
          /\ fires[k].next_run > fires[k].at
    /\ \A k, l \in DOMAIN fires : k # l => fires[k].due # fires[l].due

\* the loop threads that have not left _run_loop
ActiveLoops ==
    {i \in DOMAIN loops : loops[i].pc # "done"}

(* C30  Single polling loop: for every interleaving of start() and stop()  *)
(* with the sleep of the background loop, at most one polling loop is      *)
(* active at any time.                                                     *)
C30_SinglePollingLoop ==
    Cardinality(ActiveLoops) <= 1

====
